---- MODULE Spec2Model ----
(***************************************************************************)
(* Stock and transaction accounting of the inventory dashboard:            *)
(*   src/src/models/inventory.py       InventoryItem, Inventory            *)
(*   src/src/models/transaction.py     transactions, TransactionManager    *)
(*   src/src/models/product.py         Product, ProductCatalog             *)
(*   src/src/services/data_validation.py, src/src/utils/validators.py      *)
(*   src/src/services/stock_calculator.py                                  *)
(*   src/src/utils/helpers.py          the session cache                   *)
(* together with the configuration attributes of src/config.py they read.  *)
(*                                                                         *)
(* Python integers are unbounded, so stock quantities are plain Int.       *)
(* datetime.now() is the logical clock `now`; weights are kept in tenths   *)
(* of a kilogram so that weight * 100 (the unit price) stays an integer.   *)
(***************************************************************************)
EXTENDS Integers, Sequences, FiniteSets, TLC

VARIABLES
    obj,      \* a stand-alone InventoryItem held by a caller
    items,    \* Inventory.items: the dict, as the sequence of its values in insertion order
    now,      \* the wall clock read by datetime.now()
    last,     \* the most recent call: its name, arguments, return value and exception
    transactions,  \* TransactionManager.transactions: the dict, as its (key, value) entries in insertion order
    products,      \* ProductCatalog.products: the dict, as the sequence of its values in insertion order
    session_state  \* st.session_state: the two dicts of the cache, as their (key, value) entries

vars == <<obj, items, now, last, transactions, products, session_state>>

\* initialize_session_state: the cache starts as two empty dicts
initialize_session_state == [cached_data |-> <<>>, cache_timestamp |-> <<>>]

(***************************************************************************)
(* Bounds of the model.                                                    *)
(***************************************************************************)
MaxNow == 1        \* the clock stops advancing here
MaxStock == 100    \* stock mutations are explored while |current_stock| <= MaxStock
MaxBatch == 2      \* longest actual_counts / items list passed to a bulk call

(***************************************************************************)
(* src/config.py                                                           *)
(***************************************************************************)
PRODUCT_WEIGHTS == <<2, 5, 10, 15, 20>>     \* [0.2, 0.5, 1.0, 1.5, 2.0] in tenths of a kg
MAX_STOCK_LIMIT == 10000
MIN_STOCK_THRESHOLD == 10
DASHBOARD_CONFIG ==
    [REFRESH_INTERVAL |-> 30, LOW_STOCK_THRESHOLD |-> 10,
     CRITICAL_STOCK_THRESHOLD |-> 5, DEFAULT_DATE_RANGE |-> 30]

\* The module-level integer attributes of config that the ledger and the
\* calculator look up.  CRITICAL_STOCK_THRESHOLD is only a key of
\* DASHBOARD_CONFIG, not an attribute of the module.
ConfigModule ==
    [MAX_STOCK_LIMIT |-> MAX_STOCK_LIMIT, MIN_STOCK_THRESHOLD |-> MIN_STOCK_THRESHOLD]

\* getattr(config, name): the value, or AttributeError when the module has no such name
HasConfigAttr(name) == name \in DOMAIN ConfigModule
ConfigAttr(name) == ConfigModule[name]

(***************************************************************************)
(* Python values                                                           *)
(***************************************************************************)
\* d.get(key, default) on a dict or a row, whose keys are the record's fields
Get(d, key, default) == IF key \in DOMAIN d THEN d[key] ELSE default

\* a dict as the sequence of its entries: key in d, d[key], d[key] = value, d.pop(key, None)
DictKeys(d) == { d[i].key : i \in DOMAIN d }
DictGet(d, key) == d[CHOOSE i \in DOMAIN d : d[i].key = key].value
DictSet(d, key, value) ==
    IF key \in DictKeys(d)
    THEN [i \in DOMAIN d |-> IF d[i].key = key THEN [key |-> key, value |-> value] ELSE d[i]]
    ELSE Append(d, [key |-> key, value |-> value])
DictPop(d, key) == SelectSeq(d, LAMBDA entry : entry.key # key)

\* Values of more than one Python type are tagged with their type; "absent"
\* stands for a key a dict does not have.
Absent == [t |-> "absent", n |-> 0, s |-> ""]
None == [t |-> "None", n |-> 0, s |-> ""]
Num(n) == [t |-> "num", n |-> n, s |-> ""]
Str(s) == [t |-> "str", n |-> 0, s |-> s]
Date(d) == [t |-> "date", n |-> d, s |-> ""]

\* key in data
Has(v) == v.t # "absent"

\* bool(value)
Truthy(v) ==
    CASE v.t = "num"  -> v.n # 0
      [] v.t = "str"  -> v.s # ""
      [] v.t = "date" -> TRUE
      [] OTHER        -> FALSE

TodayDate == 2     \* the day date.today() returns

\* the instants and days that are written out as text
Instants == 0..(MaxNow + TodayDate + 1)

\* date.isoformat / datetime.isoformat and date.fromisoformat / datetime.fromisoformat
isoformat(d) == ToString(d)
fromisoformat(s) == CHOOSE d \in Instants : ToString(d) = s

(***************************************************************************)
(* InventoryItem                                                           *)
(***************************************************************************)
OUT_OF_STOCK == "out_of_stock"
CRITICAL == "critical"
LOW == "low"
NORMAL == "normal"
OVERSTOCKED == "overstocked"
StockStatus == <<OUT_OF_STOCK, CRITICAL, LOW, NORMAL, OVERSTOCKED>>   \* enum, in definition order
AttributeError == "AttributeError"

PostInit_no_max_check(self) ==
    IF self.current_stock < 0 THEN "ValueError"
    ELSE IF self.min_stock < 0 THEN "ValueError"
    ELSE ""

\* InventoryItem.__post_init__: the exception it raises, "" when it raises none
PostInit(self) ==
    IF self.current_stock < 0 THEN "ValueError"
    ELSE IF self.min_stock < 0 THEN "ValueError"
    ELSE IF self.max_stock < self.min_stock THEN "ValueError"
    ELSE ""

\* the dataclass constructor; fields without an argument take the class defaults
InventoryItem(product_id, product_name, weight_kg, current_stock, opening_stock, min_stock, max_stock, unit_price, t) ==
    [product_id |-> product_id, product_name |-> product_name, weight_kg |-> weight_kg,
     current_stock |-> current_stock, opening_stock |-> opening_stock,
     min_stock |-> min_stock, max_stock |-> max_stock, unit_price |-> unit_price,
     location |-> "Main Warehouse", batch_number |-> "", expiry_date |-> None,
     last_updated |-> t]

\* InventoryItem.stock_status: a StockStatus value, or AttributeError when the
\* lookup of config.CRITICAL_STOCK_THRESHOLD raises
stock_status(self) ==
    IF self.current_stock = 0 THEN OUT_OF_STOCK
    ELSE IF ~HasConfigAttr("CRITICAL_STOCK_THRESHOLD") THEN AttributeError
    ELSE IF self.current_stock <= ConfigAttr("CRITICAL_STOCK_THRESHOLD") THEN CRITICAL
    ELSE IF self.current_stock <= self.min_stock THEN LOW
    ELSE IF self.current_stock >= self.max_stock THEN OVERSTOCKED
    ELSE NORMAL

stock_value(self) == self.current_stock * self.unit_price

Max(a, b) == IF a >= b THEN a ELSE b

reorder_quantity(self) == Max(self.max_stock - self.current_stock, 0)

\* InventoryItem.days_until_expiry and is_expired
days_until_expiry(self) ==
    IF Truthy(self.expiry_date) THEN Num(self.expiry_date.n - TodayDate) ELSE None

is_expired(self) == Truthy(self.expiry_date) /\ self.expiry_date.n < TodayDate

\* The four stock operations: the item after the call and the value returned.
adjust_stock_fault(self, quantity, t) ==
    LET new_stock == self.current_stock + quantity IN
    IF new_stock < 0
    THEN [self |-> [self EXCEPT !.last_updated = t], ret |-> FALSE]
    ELSE [self |-> [self EXCEPT !.current_stock = new_stock, !.last_updated = t], ret |-> TRUE]

adjust_stock(self, quantity, t) ==
    LET new_stock == self.current_stock + quantity IN
    IF new_stock < 0
    THEN [self |-> self, ret |-> FALSE]
    ELSE [self |-> [self EXCEPT !.current_stock = new_stock, !.last_updated = t], ret |-> TRUE]

set_stock_level_unchecked(self, new_level, t) ==
    [self |-> [self EXCEPT !.current_stock = new_level, !.last_updated = t], ret |-> TRUE]

set_stock_level(self, new_level, t) ==
    IF new_level < 0
    THEN [self |-> self, ret |-> FALSE]
    ELSE [self |-> [self EXCEPT !.current_stock = new_level, !.last_updated = t], ret |-> TRUE]

reduce_stock_fault(self, quantity, t) ==
    IF self.current_stock > quantity
    THEN [self |-> [self EXCEPT !.current_stock = self.current_stock - quantity,
                                !.last_updated = t], ret |-> TRUE]
    ELSE [self |-> self, ret |-> FALSE]

reduce_stock(self, quantity, t) ==
    IF self.current_stock >= quantity
    THEN [self |-> [self EXCEPT !.current_stock = self.current_stock - quantity,
                                !.last_updated = t], ret |-> TRUE]
    ELSE [self |-> self, ret |-> FALSE]

add_stock(self, quantity, t) ==
    [self |-> [self EXCEPT !.current_stock = self.current_stock + quantity,
                           !.last_updated = t], ret |-> TRUE]

\* InventoryItem.to_dict; stock_status is the value of the enum member, or
\* AttributeError when the property raises (the callers below test for it)
to_dict(self) ==
    [product_id |-> self.product_id, product_name |-> self.product_name,
     weight_kg |-> self.weight_kg, current_stock |-> self.current_stock,
     opening_stock |-> self.opening_stock, min_stock |-> self.min_stock,
     max_stock |-> self.max_stock, unit_price |-> self.unit_price,
     stock_value |-> stock_value(self), stock_status |-> stock_status(self),
     location |-> self.location, batch_number |-> self.batch_number,
     expiry_date |-> IF Truthy(self.expiry_date) THEN Str(isoformat(self.expiry_date.n))
                     ELSE None,
     days_until_expiry |-> days_until_expiry(self), is_expired |-> is_expired(self),
     reorder_quantity |-> reorder_quantity(self),
     last_updated |-> Str(isoformat(self.last_updated))]

\* InventoryItem.from_dict: the constructor call cls(**data) it ends with, before
\* __post_init__.  The calculated fields are popped; a key the dict does not
\* have takes the dataclass default, last_updated the time of the call.
from_dict(data, t) ==
    LET expiry == Get(data, "expiry_date", None)
        updated == Get(data, "last_updated", Absent)
        item == InventoryItem(data.product_id, data.product_name, data.weight_kg,
                              data.current_stock, Get(data, "opening_stock", 0),
                              Get(data, "min_stock", 10), Get(data, "max_stock", 1000),
                              Get(data, "unit_price", 0),
                              CASE updated.t = "str"  -> fromisoformat(updated.s)
                                [] updated.t = "date" -> updated.n
                                [] OTHER              -> t)
    IN [item EXCEPT !.location = Get(data, "location", "Main Warehouse"),
                    !.batch_number = Get(data, "batch_number", ""),
                    !.expiry_date = IF Truthy(expiry) THEN Date(fromisoformat(expiry.s))
                                    ELSE expiry]

(***************************************************************************)
(* Inputs                                                                  *)
(***************************************************************************)
InBounds(n) == n >= -MaxStock /\ n <= MaxStock

StockLevels == {-1, 0, 5, 85}
MinLevels == {-1, 0, 10}
MaxLevels == {5, 1000}

\* quantities tried on an item whose stock is cs: round lots and the boundary cases
Quantities(cs) == {-100, 100, cs, cs + 1, -cs, -cs - 1}
SaleQuantities(cs) == {-100, cs, cs + 1}
AdjustQuantities(cs) == {100, -cs, -cs - 1}
PurchaseQuantities(cs) == {100, -cs - 1}

NoCall(op) ==
    [op |-> op, pid |-> "", qty |-> 0, ret |-> TRUE, exc |-> "",
     counts |-> <<>>, data |-> <<>>, out |-> <<>>,
     result |-> [total_items_counted |-> 0, variances_found |-> 0,
                 adjustments_made |-> 0, stock_take_date |-> 0]]

Call(op, pid, qty, ret) == [NoCall(op) EXCEPT !.pid = pid, !.qty = qty, !.ret = ret]

(***************************************************************************)
(* A caller holding one InventoryItem                                      *)
(***************************************************************************)
\* expiry dates given to an item: none, a day before today, a day after today
Expiries == {None, Date(1), Date(3)}

ValidItems ==
    { it \in { [InventoryItem("RC_1.0KG", "Roasted Chana 1.0kg", 10, cs, cs, mn, mx, 100, 0)
                   EXCEPT !.expiry_date = expiry] :
                 cs \in StockLevels, mn \in MinLevels, mx \in MaxLevels, expiry \in Expiries } :
        PostInit(it) = "" }

ItemInit ==
    /\ obj \in ValidItems
    /\ items = <<>>
    /\ now = 0
    /\ last = NoCall("InventoryItem")
    /\ transactions = <<>>
    /\ products = <<>>
    /\ session_state = initialize_session_state

Tick ==
    /\ now < MaxNow
    /\ now' = now + 1
    /\ UNCHANGED <<obj, items, last, transactions, products, session_state>>

ItemAdjustStock ==
    \E q \in Quantities(obj.current_stock) :
        LET r == adjust_stock(obj, q, now) IN
        /\ InBounds(r.self.current_stock)
        /\ obj' = r.self
        /\ last' = Call("adjust_stock", obj.product_id, q, r.ret)
        /\ UNCHANGED <<items, now, transactions, products, session_state>>

ItemSetStockLevel ==
    \E n \in StockLevels :
        LET r == set_stock_level(obj, n, now) IN
        /\ obj' = r.self
        /\ last' = Call("set_stock_level", obj.product_id, n, r.ret)
        /\ UNCHANGED <<items, now, transactions, products, session_state>>

ItemReduceStock ==
    \E q \in Quantities(obj.current_stock) :
        LET r == reduce_stock(obj, q, now) IN
        /\ InBounds(r.self.current_stock)
        /\ obj' = r.self
        /\ last' = Call("reduce_stock", obj.product_id, q, r.ret)
        /\ UNCHANGED <<items, now, transactions, products, session_state>>

\* InventoryItem.from_dict(obj.to_dict()): to_dict raises what stock_status
\* raises; otherwise the dict goes to from_dict and through __post_init__
ItemRoundTrip ==
    /\ last' = IF stock_status(obj) = AttributeError
               THEN [NoCall("to_dict") EXCEPT
                        !.pid = obj.product_id, !.ret = FALSE, !.exc = AttributeError]
               ELSE LET data == to_dict(obj)
                        item == from_dict(data, now)
                    IN IF PostInit(item) # ""
                       THEN [NoCall("from_dict") EXCEPT
                                !.pid = obj.product_id, !.data = <<data>>,
                                !.ret = FALSE, !.exc = PostInit(item)]
                       ELSE [NoCall("from_dict") EXCEPT
                                !.pid = obj.product_id, !.data = <<data>>, !.out = <<item>>]
    /\ UNCHANGED <<obj, items, now, transactions, products, session_state>>

ItemNext == Tick \/ ItemAdjustStock \/ ItemSetStockLevel \/ ItemReduceStock \/ ItemRoundTrip

ItemSpec == ItemInit /\ [][ItemNext]_vars

(***************************************************************************)
(* Inventory: the ledger                                                   *)
(***************************************************************************)
\* f"RC_{weight}KG" and f"Roasted Chana {weight}kg"
ProductId(weight) ==
    CASE weight = 2 -> "RC_0.2KG" [] weight = 5 -> "RC_0.5KG" [] weight = 10 -> "RC_1.0KG"
      [] weight = 15 -> "RC_1.5KG" [] weight = 20 -> "RC_2.0KG"
ProductName(weight) ==
    CASE weight = 2 -> "Roasted Chana 0.2kg" [] weight = 5 -> "Roasted Chana 0.5kg"
      [] weight = 10 -> "Roasted Chana 1.0kg" [] weight = 15 -> "Roasted Chana 1.5kg"
      [] weight = 20 -> "Roasted Chana 2.0kg"

Keys(its) == { its[i].product_id : i \in DOMAIN its }
IndexOf(its, product_id) == CHOOSE i \in DOMAIN its : its[i].product_id = product_id

\* self.items[key] = item: an existing key keeps its place, a new key goes last
Put(its, item) ==
    IF item.product_id \in Keys(its)
    THEN [its EXCEPT ![IndexOf(its, item.product_id)] = item]
    ELSE Append(its, item)

\* Inventory._load_default_inventory
RECURSIVE LoadFrom(_, _, _)
LoadFrom(its, k, t) ==
    IF k > Len(PRODUCT_WEIGHTS) THEN its
    ELSE LET weight == PRODUCT_WEIGHTS[k]
             item == InventoryItem(ProductId(weight), ProductName(weight), weight, 100, 100,
                                   ConfigAttr("MIN_STOCK_THRESHOLD"),
                                   ConfigAttr("MAX_STOCK_LIMIT") \div 10, weight * 10, t)
         IN LoadFrom(Put(its, item), k + 1, t)

load_default_inventory(t) == LoadFrom(<<>>, 1, t)

\* Inventory.add_item
add_item(its, item) ==
    IF item.product_id \in Keys(its)
    THEN [items |-> its, ret |-> FALSE]
    ELSE [items |-> Put(its, item), ret |-> TRUE]

\* the ledger after an item-level call on self.items[product_id]
OnItem(its, product_id, r) ==
    [items |-> [its EXCEPT ![IndexOf(its, product_id)] = r.self], ret |-> r.ret]

update_stock(its, product_id, new_stock, t) ==
    IF product_id \in Keys(its)
    THEN OnItem(its, product_id, set_stock_level(its[IndexOf(its, product_id)], new_stock, t))
    ELSE [items |-> its, ret |-> FALSE]

inventory_adjust_stock(its, product_id, quantity, t) ==
    IF product_id \in Keys(its)
    THEN OnItem(its, product_id, adjust_stock(its[IndexOf(its, product_id)], quantity, t))
    ELSE [items |-> its, ret |-> FALSE]

record_sale(its, product_id, quantity, t) ==
    IF product_id \in Keys(its)
    THEN OnItem(its, product_id, reduce_stock(its[IndexOf(its, product_id)], quantity, t))
    ELSE [items |-> its, ret |-> FALSE]

record_purchase(its, product_id, quantity, t) ==
    IF product_id \in Keys(its)
    THEN OnItem(its, product_id, add_stock(its[IndexOf(its, product_id)], quantity, t))
    ELSE [items |-> its, ret |-> FALSE]

\* Inventory.get_low_stock_items; AttributeError when a stock_status lookup raises
StatusRaises(its) == \E i \in DOMAIN its : stock_status(its[i]) = AttributeError

IsLowStock(item) == stock_status(item) \in {LOW, CRITICAL, OUT_OF_STOCK}

get_low_stock_items(its) ==
    IF StatusRaises(its) THEN [exc |-> AttributeError, list |-> <<>>]
    ELSE [exc |-> "", list |-> SelectSeq(its, IsLowStock)]

\* urgency_order.get(urgency, 3)
UrgencyRank(urgency) ==
    CASE urgency = "Emergency" -> 0 [] urgency = "Critical" -> 1 [] urgency = "High" -> 2
      [] OTHER -> 3

\* list.sort(key=...): a stable sort, here by insertion
RECURSIVE InsertByRank(_, _)
InsertByRank(sorted, rec) ==
    IF sorted = <<>> THEN <<rec>>
    ELSE IF UrgencyRank(sorted[Len(sorted)].urgency) <= UrgencyRank(rec.urgency)
         THEN Append(sorted, rec)
         ELSE Append(InsertByRank(SubSeq(sorted, 1, Len(sorted) - 1), rec), sorted[Len(sorted)])

RECURSIVE SortByRank(_)
SortByRank(recs) ==
    IF recs = <<>> THEN <<>>
    ELSE InsertByRank(SortByRank(SubSeq(recs, 1, Len(recs) - 1)), recs[Len(recs)])

Recommendation(item) ==
    LET urgency0 == IF stock_status(item) = CRITICAL THEN "Critical" ELSE "High"
        urgency == IF stock_status(item) = OUT_OF_STOCK THEN "Emergency" ELSE urgency0
    IN [product_id |-> item.product_id, product_name |-> item.product_name,
        current_stock |-> item.current_stock, min_stock |-> item.min_stock,
        recommended_quantity |-> reorder_quantity(item), urgency |-> urgency,
        stock_status |-> stock_status(item)]

RECURSIVE Recommendations(_, _)
Recommendations(its, k) ==
    IF k > Len(its) THEN <<>>
    ELSE IF IsLowStock(its[k]) THEN <<Recommendation(its[k])>> \o Recommendations(its, k + 1)
    ELSE Recommendations(its, k + 1)

\* Inventory.get_reorder_recommendations
get_reorder_recommendations(its) ==
    IF StatusRaises(its) THEN [exc |-> AttributeError, list |-> <<>>]
    ELSE [exc |-> "", list |-> SortByRank(Recommendations(its, 1))]

\* sum(item.stock_value for ...) and sum(item.current_stock for ...)
RECURSIVE TotalValue(_)
TotalValue(its) == IF its = <<>> THEN 0 ELSE stock_value(Head(its)) + TotalValue(Tail(its))

RECURSIVE TotalStock(_)
TotalStock(its) == IF its = <<>> THEN 0 ELSE Head(its).current_stock + TotalStock(Tail(its))

CountStatus(its, status) == Cardinality({ i \in DOMAIN its : stock_status(its[i]) = status })

\* Inventory.get_inventory_summary; average_stock_value is kept as the pair
\* total_value / total_items of the true division
get_inventory_summary(its) ==
    IF StatusRaises(its) THEN [exc |-> AttributeError]
    ELSE LET total_items == Len(its)
             total_value == TotalValue(its)
             total_stock == TotalStock(its)
             status_counts == [s \in { StockStatus[k] : k \in DOMAIN StockStatus } |->
                                  CountStatus(its, s)]
         IN [exc |-> "",
             total_items |-> total_items,
             total_stock_units |-> total_stock,
             total_stock_value |-> total_value,
             average_stock_value |-> IF total_items > 0
                                     THEN [num |-> total_value, den |-> total_items]
                                     ELSE [num |-> 0, den |-> 1],
             status_breakdown |-> status_counts,
             low_stock_count |-> status_counts[LOW] + status_counts[CRITICAL]
                                   + status_counts[OUT_OF_STOCK],
             reorder_needed |-> Len(get_reorder_recommendations(its).list),
             expired_items |-> 0]

\* Inventory.perform_stock_take: the loop over actual_counts.items() from entry k on
RECURSIVE StockTakeFrom(_, _, _, _, _, _)
StockTakeFrom(its, actual_counts, k, variances, adjustments_made, t) ==
    IF k > Len(actual_counts)
    THEN [items |-> its, variance_details |-> variances, adjustments_made |-> adjustments_made]
    ELSE LET product_id == actual_counts[k].product_id
             actual_count == actual_counts[k].actual_count
         IN IF product_id \in Keys(its)
            THEN LET item == its[IndexOf(its, product_id)]
                     system_count == item.current_stock
                     variance == actual_count - system_count
                 IN IF variance # 0
                    THEN StockTakeFrom(
                           OnItem(its, product_id, set_stock_level(item, actual_count, t)).items,
                           actual_counts, k + 1,
                           Append(variances,
                                  [product_id |-> product_id, product_name |-> item.product_name,
                                   system_count |-> system_count, actual_count |-> actual_count,
                                   variance |-> variance,
                                   variance_percentage |->
                                       IF system_count > 0
                                       THEN [num |-> variance * 100, den |-> system_count]
                                       ELSE [num |-> 0, den |-> 1]]),
                           adjustments_made + 1, t)
                    ELSE StockTakeFrom(its, actual_counts, k + 1, variances, adjustments_made, t)
            ELSE StockTakeFrom(its, actual_counts, k + 1, variances, adjustments_made, t)

perform_stock_take(its, actual_counts, t) ==
    LET r == StockTakeFrom(its, actual_counts, 1, <<>>, 0, t)
    IN [items |-> r.items,
        result |-> [total_items_counted |-> Len(actual_counts),
                    variances_found |-> Len(r.variance_details),
                    adjustments_made |-> r.adjustments_made,
                    stock_take_date |-> t],
        variance_details |-> r.variance_details]

\* Inventory.import_inventory: the loop over items_data from entry k on, inside
\* the try block; an exception ends the loop and keeps what was stored before it
RECURSIVE ImportFrom(_, _, _, _)
ImportFrom(its, items_data, k, t) ==
    IF k > Len(items_data) THEN [items |-> its, ret |-> TRUE]
    ELSE LET item == from_dict(items_data[k], t)
         IN IF PostInit(item) # "" THEN [items |-> its, ret |-> FALSE]
            ELSE ImportFrom(Put(its, item), items_data, k + 1, t)

import_inventory(its, items_data, t) == ImportFrom(its, items_data, 1, t)

(***************************************************************************)
(* The ledger as a state machine                                           *)
(***************************************************************************)
\* product ids the callers pass: a default product and one the ledger starts without
OpPids == {"RC_1.0KG", "RC_NEW"}

StockOf(product_id) ==
    IF product_id \in Keys(items) THEN items[IndexOf(items, product_id)].current_stock ELSE 0

\* dicts handed to InventoryItem(**data) / from_dict: two that construct, and
\* one for each check of __post_init__ that rejects
Row(p, cs, mn, mx) ==
    [product_id |-> p, product_name |-> "Roasted Chana", weight_kg |-> 10,
     current_stock |-> cs, min_stock |-> mn, max_stock |-> mx]
ItemData ==
    { Row("RC_NEW", 5, 0, 5), Row("RC_1.0KG", 5, 10, 1000),
      Row("RC_NEW", -1, 10, 1000), Row("RC_NEW", 5, -1, 1000), Row("RC_1.0KG", 5, 10, 5) }

SeqsUpTo(S, n) == UNION { [1..k -> S] : k \in 0..n }

CountData ==
    { [product_id |-> p, actual_count |-> c] : p \in OpPids, c \in {-3, 80, 85} }

\* actual_counts is a dict: no product_id occurs twice
ActualCounts ==
    { cs \in SeqsUpTo(CountData, MaxBatch) :
        \A i, j \in DOMAIN cs : cs[i].product_id = cs[j].product_id => i = j }

Init ==
    /\ items = load_default_inventory(0)
    /\ obj = load_default_inventory(0)[1]
    /\ now = 0
    /\ last = NoCall("Inventory")
    /\ transactions = <<>>
    /\ products = <<>>
    /\ session_state = initialize_session_state

UpdateStock ==
    \E p \in OpPids, n \in StockLevels :
        LET r == update_stock(items, p, n, now) IN
        /\ items' = r.items
        /\ last' = Call("update_stock", p, n, r.ret)
        /\ UNCHANGED <<obj, now, transactions, products, session_state>>

AdjustStock ==
    \E p \in OpPids : \E q \in AdjustQuantities(StockOf(p)) :
        LET r == inventory_adjust_stock(items, p, q, now) IN
        /\ \A i \in DOMAIN r.items : InBounds(r.items[i].current_stock)
        /\ items' = r.items
        /\ last' = Call("adjust_stock", p, q, r.ret)
        /\ UNCHANGED <<obj, now, transactions, products, session_state>>

RecordSale ==
    \E p \in OpPids : \E q \in SaleQuantities(StockOf(p)) :
        LET r == record_sale(items, p, q, now) IN
        /\ \A i \in DOMAIN r.items : InBounds(r.items[i].current_stock)
        /\ items' = r.items
        /\ last' = Call("record_sale", p, q, r.ret)
        /\ UNCHANGED <<obj, now, transactions, products, session_state>>

RecordPurchase ==
    \E p \in OpPids : \E q \in PurchaseQuantities(StockOf(p)) :
        LET r == record_purchase(items, p, q, now) IN
        /\ \A i \in DOMAIN r.items : InBounds(r.items[i].current_stock)
        /\ items' = r.items
        /\ last' = Call("record_purchase", p, q, r.ret)
        /\ UNCHANGED <<obj, now, transactions, products, session_state>>

PerformStockTake ==
    \E actual_counts \in ActualCounts :
        LET r == perform_stock_take(items, actual_counts, now) IN
        /\ items' = r.items
        /\ last' = [NoCall("perform_stock_take") EXCEPT
                       !.counts = actual_counts, !.out = r.variance_details,
                       !.result = r.result]
        /\ UNCHANGED <<obj, now, transactions, products, session_state>>

\* inventory.add_item(InventoryItem(**data)): the constructor raises before
\* add_item is entered when __post_init__ rejects the fields
AddItem ==
    \E data \in ItemData :
        LET item == from_dict(data, now) IN
        /\ IF PostInit(item) # ""
           THEN /\ items' = items
                /\ last' = [NoCall("InventoryItem") EXCEPT
                               !.pid = data.product_id, !.data = <<data>>,
                               !.ret = FALSE, !.exc = PostInit(item)]
           ELSE LET r == add_item(items, item) IN
                /\ items' = r.items
                /\ last' = [NoCall("add_item") EXCEPT
                               !.pid = data.product_id, !.data = <<data>>, !.ret = r.ret]
        /\ UNCHANGED <<obj, now, transactions, products, session_state>>

ImportInventory ==
    \E items_data \in SeqsUpTo(ItemData, MaxBatch) :
        LET r == import_inventory(items, items_data, now) IN
        /\ items' = r.items
        /\ last' = [NoCall("import_inventory") EXCEPT !.data = items_data, !.ret = r.ret]
        /\ UNCHANGED <<obj, now, transactions, products, session_state>>

Next ==
    \/ Tick
    \/ UpdateStock
    \/ AdjustStock
    \/ RecordSale
    \/ RecordPurchase
    \/ PerformStockTake
    \/ AddItem
    \/ ImportInventory

Spec == Init /\ [][Next]_vars

(***************************************************************************)
(* Properties of a single InventoryItem (ItemSpec)                         *)
(***************************************************************************)

\* C1: from any validly constructed item, no sequence of adjust_stock,
\* set_stock_level and reduce_stock calls, whatever their integer arguments,
\* makes current_stock negative.
C1_StockNonNegative == obj.current_stock >= 0

\* a reduce_stock call with a negative quantity has succeeded and raised the stock
C1_Witness ==
    /\ last.op = "reduce_stock"
    /\ last.qty < 0
    /\ last.ret
    /\ obj.current_stock > 0

\* C3: reduce_stock(qty) returns true exactly when qty <= current_stock; with
\* qty = current_stock it leaves the stock at 0 and the status OUT_OF_STOCK,
\* with any larger qty it returns false and leaves current_stock unchanged.
C3_ReduceStock ==
    [][ItemReduceStock =>
        LET qty == last'.qty IN
        /\ last'.ret <=> qty <= obj.current_stock
        /\ qty = obj.current_stock =>
              /\ last'.ret
              /\ obj'.current_stock = 0
              /\ stock_status(obj') = OUT_OF_STOCK
        /\ qty > obj.current_stock =>
              /\ ~last'.ret
              /\ obj'.current_stock = obj.current_stock]_vars

\* reduce_stock(current_stock) on a stocked item has just emptied it
C3_Witness ==
    /\ last.op = "reduce_stock"
    /\ last.qty > 0
    /\ last.ret
    /\ obj.current_stock = 0
    /\ stock_status(obj) = OUT_OF_STOCK

\* C4: adjust_stock(delta) returns false and leaves the item as it was
\* (current_stock and last_updated included) when current_stock + delta < 0;
\* otherwise it returns true, sets current_stock to current_stock + delta and
\* stamps last_updated with the current time.
C4_AdjustStock ==
    [][ItemAdjustStock =>
        LET delta == last'.qty IN
        IF obj.current_stock + delta < 0
        THEN ~last'.ret /\ obj' = obj
        ELSE /\ last'.ret
             /\ obj'.current_stock = obj.current_stock + delta
             /\ obj'.last_updated = now]_vars

\* an adjust_stock call has failed at a time later than the item's last stamp
C4_Witness ==
    /\ last.op = "adjust_stock"
    /\ ~last.ret
    /\ last.qty < 0
    /\ obj.last_updated < now

(***************************************************************************)
(* Properties of the ledger (Spec)                                         *)
(***************************************************************************)

\* C2: in every ledger state reached through update_stock, adjust_stock,
\* record_sale, record_purchase, perform_stock_take and import_inventory,
\* every item has current_stock >= 0.
C2_LedgerStockNonNegative == \A i \in DOMAIN items : items[i].current_stock >= 0

\* C5: constructing an InventoryItem with max_stock < min_stock, min_stock < 0
\* or current_stock < 0 raises and stores nothing, and every item of every
\* reachable ledger satisfies max_stock >= min_stock >= 0.
C5_Thresholds ==
    /\ [](\A i \in DOMAIN items :
            items[i].max_stock >= items[i].min_stock /\ items[i].min_stock >= 0)
    /\ [][AddItem =>
            LET data == last'.data[1] IN
            (data.max_stock < data.min_stock \/ data.min_stock < 0 \/ data.current_stock < 0)
                => /\ last'.op = "InventoryItem"
                   /\ last'.exc = "ValueError"
                   /\ items' = items]_vars

\* a constructor call with max_stock < min_stock has raised, in a ledger that
\* holds an item whose thresholds came from a caller
C5_Witness ==
    /\ last.op = "InventoryItem"
    /\ last.exc = "ValueError"
    /\ last.data[1].max_stock < last.data[1].min_stock
    /\ last.data[1].min_stock >= 0
    /\ last.data[1].current_stock >= 0
    /\ \E i \in DOMAIN items : items[i].max_stock = 5 /\ items[i].min_stock = 0

\* C6: perform_stock_take is audit-then-commit: for each counted product of the
\* ledger whose count differs from the system stock there is one variance entry
\* with system_count = the stock before the call and variance = actual_count -
\* system_count, and afterwards the item's current_stock is the actual count;
\* a product whose count matches gets no entry and is left as it was.
C6_StockTake ==
    [][PerformStockTake =>
        \A k \in DOMAIN last'.counts :
            LET product_id == last'.counts[k].product_id
                actual_count == last'.counts[k].actual_count
                entries == { e \in DOMAIN last'.out : last'.out[e].product_id = product_id }
            IN product_id \in Keys(items) =>
                 LET i == IndexOf(items, product_id)
                     system_count == items[i].current_stock
                 IN IF actual_count # system_count
                    THEN /\ Cardinality(entries) = 1
                         /\ \A e \in entries :
                              /\ last'.out[e].system_count = system_count
                              /\ last'.out[e].actual_count = actual_count
                              /\ last'.out[e].variance = actual_count - system_count
                         /\ items'[i].current_stock = actual_count
                    ELSE /\ entries = {}
                         /\ items'[i] = items[i]]_vars

\* the status the five rules give, with the critical threshold of DASHBOARD_CONFIG
RuleStatus(item) ==
    IF item.current_stock = 0 THEN OUT_OF_STOCK
    ELSE IF item.current_stock <= DASHBOARD_CONFIG.CRITICAL_STOCK_THRESHOLD THEN CRITICAL
    ELSE IF item.current_stock <= item.min_stock THEN LOW
    ELSE IF item.current_stock >= item.max_stock THEN OVERSTOCKED
    ELSE NORMAL

\* C7: stock_status is the first matching of: stock = 0 -> OUT_OF_STOCK,
\* stock <= critical threshold -> CRITICAL, stock <= min_stock -> LOW,
\* stock >= max_stock -> OVERSTOCKED, otherwise NORMAL.
C7_StockStatus == \A i \in DOMAIN items : stock_status(items[i]) = RuleStatus(items[i])

\* the ledger's items that need a reorder, in ledger order
NeedsReorder(its) == SelectSeq(its, LAMBDA item : RuleStatus(item) \in {LOW, CRITICAL, OUT_OF_STOCK})

RuleUrgency(item) ==
    CASE RuleStatus(item) = OUT_OF_STOCK -> "Emergency"
      [] RuleStatus(item) = CRITICAL -> "Critical"
      [] OTHER -> "High"

\* C8: get_reorder_recommendations returns a list sorted by urgency rank
\* (Emergency, then Critical, then High) in which entries of equal urgency
\* keep the ledger's item order.
C8_SortedByUrgency ==
    LET r == get_reorder_recommendations(items) IN
    /\ r.exc = ""
    /\ \A a, b \in DOMAIN r.list :
         a < b =>
           /\ UrgencyRank(r.list[a].urgency) <= UrgencyRank(r.list[b].urgency)
           /\ r.list[a].urgency = r.list[b].urgency =>
                IndexOf(items, r.list[a].product_id) < IndexOf(items, r.list[b].product_id)

\* C9: get_reorder_recommendations has exactly one entry for each LOW,
\* CRITICAL or OUT_OF_STOCK item and none for the others, with urgency
\* Emergency / Critical / High by status and recommended_quantity =
\* max(max_stock - current_stock, 0).
C9_Recommendations ==
    LET r == get_reorder_recommendations(items) IN
    /\ r.exc = ""
    /\ Len(r.list) = Len(NeedsReorder(items))
    /\ \A i \in DOMAIN items :
         LET entries == { e \in DOMAIN r.list : r.list[e].product_id = items[i].product_id }
         IN IF RuleStatus(items[i]) \in {LOW, CRITICAL, OUT_OF_STOCK}
            THEN /\ Cardinality(entries) = 1
                 /\ \A e \in entries :
                      /\ r.list[e].urgency = RuleUrgency(items[i])
                      /\ r.list[e].recommended_quantity =
                           Max(items[i].max_stock - items[i].current_stock, 0)
            ELSE entries = {}

\* C10: get_inventory_summary is consistent: the five status counts sum to
\* total_items, low_stock_count = LOW + CRITICAL + OUT_OF_STOCK counts =
\* reorder_needed = len(get_low_stock_items()), total_stock_units is the sum of
\* current_stock, and average_stock_value is 0 for an empty ledger.
C10_SummaryConsistent ==
    LET s == get_inventory_summary(items) IN
    /\ s.exc = ""
    /\ s.status_breakdown[OUT_OF_STOCK] + s.status_breakdown[CRITICAL] + s.status_breakdown[LOW]
         + s.status_breakdown[NORMAL] + s.status_breakdown[OVERSTOCKED] = s.total_items
    /\ s.low_stock_count = s.status_breakdown[LOW] + s.status_breakdown[CRITICAL]
                             + s.status_breakdown[OUT_OF_STOCK]
    /\ s.low_stock_count = s.reorder_needed
    /\ get_low_stock_items(items).exc = ""
    /\ s.low_stock_count = Len(get_low_stock_items(items).list)
    /\ s.total_stock_units = TotalStock(items)
    /\ s.total_items = 0 => s.average_stock_value.num = 0

(***************************************************************************)
(* Transactions and the TransactionManager (src/src/models/transaction.py) *)
(* Dates are day numbers; money is in whole rupees.                        *)
(***************************************************************************)
MaxUpdates == 1    \* most keys in an updates dict

PENDING == "pending"
COMPLETED == "completed"
CANCELLED == "cancelled"
REFUNDED == "refunded"
SALE == "sale"
PURCHASE == "purchase"

\* Transaction.__post_init__: an empty transaction_id is replaced by str(uuid.uuid4())
TransactionPostInit(self, uuid) ==
    IF self.transaction_id = "" THEN [self EXCEPT !.transaction_id = uuid] ELSE self

\* the fields of the two variants in one record; cls is the class of the object
TransactionFields(cls, transaction_id, transaction_date, t) ==
    [cls |-> cls, transaction_id |-> transaction_id, transaction_type |-> SALE,
     transaction_date |-> transaction_date, status |-> PENDING,
     created_date |-> t, updated_date |-> t,
     quantity |-> 0, unit_price |-> 0, total_amount |-> 0,
     shipping_cost |-> 0, tax_amount |-> 0, discount_amount |-> 0,
     quantity_kg |-> 0, rate_per_kg |-> 0, payment_status |-> ""]

\* SaleTransaction(...) with SaleTransaction.__post_init__
SaleTransaction(transaction_id, transaction_date, quantity, unit_price, total_amount, uuid, t) ==
    LET self == TransactionPostInit(
                    [TransactionFields("SaleTransaction", transaction_id, transaction_date, t)
                        EXCEPT !.quantity = quantity, !.unit_price = unit_price,
                               !.total_amount = total_amount], uuid)
        typed == [self EXCEPT !.transaction_type = SALE]
    IN IF typed.total_amount = 0 /\ typed.quantity > 0 /\ typed.unit_price > 0
       THEN [typed EXCEPT !.total_amount = (typed.quantity * typed.unit_price)
                              + typed.shipping_cost + typed.tax_amount - typed.discount_amount]
       ELSE typed

\* PurchaseTransaction(...) with PurchaseTransaction.__post_init__
PurchaseTransaction(transaction_id, transaction_date, quantity_kg, rate_per_kg, total_amount, uuid, t) ==
    LET self == TransactionPostInit(
                    [TransactionFields("PurchaseTransaction", transaction_id, transaction_date, t)
                        EXCEPT !.quantity_kg = quantity_kg, !.rate_per_kg = rate_per_kg,
                               !.total_amount = total_amount, !.payment_status = "Pending"], uuid)
        typed == [self EXCEPT !.transaction_type = PURCHASE]
    IN IF typed.total_amount = 0 /\ typed.quantity_kg > 0 /\ typed.rate_per_kg > 0
       THEN [typed EXCEPT !.total_amount = typed.quantity_kg * typed.rate_per_kg]
       ELSE typed

mark_completed(self, t) == [self EXCEPT !.status = COMPLETED, !.updated_date = t]

mark_cancelled(self, t) == [self EXCEPT !.status = CANCELLED, !.updated_date = t]

net_amount(self) ==
    (self.quantity * self.unit_price) + self.shipping_cost + self.tax_amount - self.discount_amount

\* SaleTransaction.apply_discount; the percentages tried divide the base amount exactly
apply_discount(self, discount_percentage, t) ==
    LET base_amount == self.quantity * self.unit_price
        discounted == [self EXCEPT !.discount_amount = (base_amount * discount_percentage) \div 100]
    IN [discounted EXCEPT !.total_amount = net_amount(discounted), !.updated_date = t]

mark_paid(self, t) == [self EXCEPT !.payment_status = "Paid", !.updated_date = t]

\* hasattr(transaction, key) for the keys the callers pass
HasAttr(self, key) ==
    \/ key \in {"transaction_id", "transaction_date", "status", "total_amount"}
    \/ key = "quantity" /\ self.cls = "SaleTransaction"
    \/ key = "quantity_kg" /\ self.cls = "PurchaseTransaction"

\* setattr(transaction, key, value); a value is carried as a number and a string,
\* of which the key's type picks one
SetAttr(self, update) ==
    CASE update.key = "transaction_id"   -> [self EXCEPT !.transaction_id = update.str]
      [] update.key = "status"           -> [self EXCEPT !.status = update.str]
      [] update.key = "transaction_date" -> [self EXCEPT !.transaction_date = update.num]
      [] update.key = "total_amount"     -> [self EXCEPT !.total_amount = update.num]
      [] update.key = "quantity"         -> [self EXCEPT !.quantity = update.num]
      [] update.key = "quantity_kg"      -> [self EXCEPT !.quantity_kg = update.num]

TxnKeys(txns) == { txns[i].key : i \in DOMAIN txns }
TxnIndex(txns, key) == CHOOSE i \in DOMAIN txns : txns[i].key = key

add_transaction_overwrite(txns, transaction) ==
    IF transaction.transaction_id \in TxnKeys(txns)
    THEN [transactions |->
              [txns EXCEPT ![TxnIndex(txns, transaction.transaction_id)].txn = transaction],
          ret |-> FALSE]
    ELSE [transactions |-> Append(txns, [key |-> transaction.transaction_id, txn |-> transaction]),
          ret |-> TRUE]

\* TransactionManager.add_transaction
add_transaction(txns, transaction) ==
    IF transaction.transaction_id \in TxnKeys(txns)
    THEN [transactions |-> txns, ret |-> FALSE]
    ELSE [transactions |-> Append(txns, [key |-> transaction.transaction_id, txn |-> transaction]),
          ret |-> TRUE]

\* the loop of update_transaction over updates.items() from entry k on
RECURSIVE ApplyUpdates(_, _, _)
ApplyUpdates(transaction, updates, k) ==
    IF k > Len(updates) THEN transaction
    ELSE IF HasAttr(transaction, updates[k].key)
         THEN ApplyUpdates(SetAttr(transaction, updates[k]), updates, k + 1)
         ELSE ApplyUpdates(transaction, updates, k + 1)

\* TransactionManager.update_transaction
update_transaction(txns, transaction_id, updates, t) ==
    IF transaction_id \notin TxnKeys(txns)
    THEN [transactions |-> txns, ret |-> FALSE]
    ELSE LET i == TxnIndex(txns, transaction_id)
             transaction == ApplyUpdates(txns[i].txn, updates, 1)
         IN [transactions |-> [txns EXCEPT ![i].txn = [transaction EXCEPT !.updated_date = t]],
             ret |-> TRUE]

\* sum(f(t) for t in selected), selected being a list of transactions
RECURSIVE SumTotalAmount(_)
SumTotalAmount(selected) ==
    IF selected = <<>> THEN 0 ELSE Head(selected).total_amount + SumTotalAmount(Tail(selected))

RECURSIVE SumQuantity(_)
SumQuantity(selected) ==
    IF selected = <<>> THEN 0 ELSE Head(selected).quantity + SumQuantity(Tail(selected))

RECURSIVE SumQuantityKg(_)
SumQuantityKg(selected) ==
    IF selected = <<>> THEN 0 ELSE Head(selected).quantity_kg + SumQuantityKg(Tail(selected))

\* list(self.transactions.values()), in insertion order
Values(txns) == [k \in DOMAIN txns |-> txns[k].txn]

\* a true division, kept as numerator and denominator
Ratio(num, den) == [num |-> num, den |-> den]
Zero == Ratio(0, 1)

get_sales_summary_no_status(txns, start_date, end_date) ==
    LET sales == SelectSeq(Values(txns), LAMBDA t :
                     /\ t.cls = "SaleTransaction"
                     /\ start_date <= t.transaction_date /\ t.transaction_date <= end_date)
        total_revenue == SumTotalAmount(sales)
        total_quantity == SumQuantity(sales)
    IN [total_sales |-> Len(sales), total_revenue |-> total_revenue,
        total_quantity |-> total_quantity,
        average_order_value |-> IF sales # <<>> THEN Ratio(total_revenue, Len(sales)) ELSE Zero,
        period_start |-> start_date, period_end |-> end_date]

\* TransactionManager.get_sales_summary
get_sales_summary(txns, start_date, end_date) ==
    LET sales == SelectSeq(Values(txns), LAMBDA t :
                     /\ t.cls = "SaleTransaction"
                     /\ start_date <= t.transaction_date /\ t.transaction_date <= end_date
                     /\ t.status = COMPLETED)
        total_revenue == SumTotalAmount(sales)
        total_quantity == SumQuantity(sales)
    IN [total_sales |-> Len(sales), total_revenue |-> total_revenue,
        total_quantity |-> total_quantity,
        average_order_value |-> IF sales # <<>> THEN Ratio(total_revenue, Len(sales)) ELSE Zero,
        period_start |-> start_date, period_end |-> end_date]

\* TransactionManager.get_purchase_summary
get_purchase_summary(txns, start_date, end_date) ==
    LET purchases == SelectSeq(Values(txns), LAMBDA t :
                         /\ t.cls = "PurchaseTransaction"
                         /\ start_date <= t.transaction_date /\ t.transaction_date <= end_date
                         /\ t.status = COMPLETED)
        total_amount == SumTotalAmount(purchases)
        total_quantity == SumQuantityKg(purchases)
    IN [total_purchases |-> Len(purchases), total_amount |-> total_amount,
        total_quantity_kg |-> total_quantity,
        average_rate_per_kg |-> IF total_quantity > 0 THEN Ratio(total_amount, total_quantity)
                                ELSE Zero,
        period_start |-> start_date, period_end |-> end_date]

(***************************************************************************)
(* The TransactionManager as a state machine.  transactions is the dict of *)
(* the manager in insertion order; the stored objects are the ones the     *)
(* callers hold, so a method of a stored object acts on the store.         *)
(***************************************************************************)
TxnIds == {"T1", "T2"}
Dates == {1, 2, 3}

\* (start_date, end_date) of the summaries asked for
Periods == { <<1, 3>>, <<2, 2>>, <<1, 2>>, <<3, 1>> }

\* no transaction: the value of last.txn when a call constructs none
NoTransaction == TransactionFields("", "", 0, 0)

NoSummary == [count |-> 0, amount |-> 0, quantity |-> 0, average |-> Zero]

TxnCall(op, key, ret, txn, updates, sales, purchases) ==
    [op |-> op, key |-> key, ret |-> ret, txn |-> txn, updates |-> updates,
     sales |-> sales, purchases |-> purchases]

\* constructor arguments tried: (id, date, quantity); the third row breaks the
\* stated invariants of a sale (no quantity, dated after today)
SaleArgs == { <<"T1", 2, 5>>, <<"T2", 1, 3>>, <<"", 3, 0>> }
PurchaseArgs == { <<"", 2, 10>> }

\* entries of an updates dict
UpdateEntries ==
    { [key |-> "status", num |-> 0, str |-> REFUNDED],
      [key |-> "quantity", num |-> 7, str |-> ""],
      [key |-> "transaction_id", num |-> 0, str |-> "T2"],
      [key |-> "colour", num |-> 0, str |-> "red"] }

DistinctKeys(updates) ==
    \A i, j \in DOMAIN updates : updates[i].key = updates[j].key => i = j

UpdateDicts == { u \in SeqsUpTo(UpdateEntries, MaxUpdates) : DistinctKeys(u) }

TxnInit ==
    /\ transactions = <<>>
    /\ now = 0
    /\ last = TxnCall("TransactionManager", "", TRUE, NoTransaction, <<>>, NoSummary, NoSummary)
    /\ obj = load_default_inventory(0)[1]
    /\ items = <<>>
    /\ products = <<>>
    /\ session_state = initialize_session_state

SetTxn(key, txn) == [transactions EXCEPT ![TxnIndex(transactions, key)].txn = txn]

TxnOf(key) == transactions[TxnIndex(transactions, key)].txn

AddSale ==
    \E args \in SaleArgs, uuid \in TxnIds :
        LET transaction == SaleTransaction(args[1], args[2], args[3], 100, 0, uuid, now)
            r == add_transaction(transactions, transaction)
        IN /\ transactions' = r.transactions
           /\ last' = TxnCall("add_sale", args[1], r.ret, transaction, <<>>, NoSummary, NoSummary)
           /\ UNCHANGED <<obj, items, now, products, session_state>>

AddPurchase ==
    \E args \in PurchaseArgs, uuid \in TxnIds :
        LET transaction == PurchaseTransaction(args[1], args[2], args[3], 40, 0, uuid, now)
            r == add_transaction(transactions, transaction)
        IN /\ transactions' = r.transactions
           /\ last' = TxnCall("add_purchase", args[1], r.ret, transaction, <<>>, NoSummary, NoSummary)
           /\ UNCHANGED <<obj, items, now, products, session_state>>

MarkCompleted ==
    \E key \in TxnKeys(transactions) :
        /\ transactions' = SetTxn(key, mark_completed(TxnOf(key), now))
        /\ last' = TxnCall("mark_completed", key, TRUE, NoTransaction, <<>>, NoSummary, NoSummary)
        /\ UNCHANGED <<obj, items, now, products, session_state>>

MarkCancelled ==
    \E key \in TxnKeys(transactions) :
        /\ transactions' = SetTxn(key, mark_cancelled(TxnOf(key), now))
        /\ last' = TxnCall("mark_cancelled", key, TRUE, NoTransaction, <<>>, NoSummary, NoSummary)
        /\ UNCHANGED <<obj, items, now, products, session_state>>

ApplyDiscount ==
    \E key \in TxnKeys(transactions) :
        /\ TxnOf(key).cls = "SaleTransaction"
        /\ transactions' = SetTxn(key, apply_discount(TxnOf(key), 10, now))
        /\ last' = TxnCall("apply_discount", key, TRUE, NoTransaction, <<>>, NoSummary, NoSummary)
        /\ UNCHANGED <<obj, items, now, products, session_state>>

MarkPaid ==
    \E key \in TxnKeys(transactions) :
        /\ TxnOf(key).cls = "PurchaseTransaction"
        /\ transactions' = SetTxn(key, mark_paid(TxnOf(key), now))
        /\ last' = TxnCall("mark_paid", key, TRUE, NoTransaction, <<>>, NoSummary, NoSummary)
        /\ UNCHANGED <<obj, items, now, products, session_state>>

UpdateTransaction ==
    \E transaction_id \in TxnIds, updates \in UpdateDicts :
        LET r == update_transaction(transactions, transaction_id, updates, now)
        IN /\ transactions' = r.transactions
           /\ last' = TxnCall("update_transaction", transaction_id, r.ret, NoTransaction, updates,
                              NoSummary, NoSummary)
           /\ UNCHANGED <<obj, items, now, products, session_state>>

GetSummary ==
    \E period \in Periods :
        LET start_date == period[1]
            end_date == period[2]
            s == get_sales_summary(transactions, start_date, end_date)
            p == get_purchase_summary(transactions, start_date, end_date)
        IN /\ last' = TxnCall("get_summary", "", TRUE, NoTransaction, <<>>,
                              [count |-> s.total_sales, amount |-> s.total_revenue,
                               quantity |-> s.total_quantity, average |-> s.average_order_value],
                              [count |-> p.total_purchases, amount |-> p.total_amount,
                               quantity |-> p.total_quantity_kg, average |-> p.average_rate_per_kg])
           /\ UNCHANGED <<obj, items, now, transactions, products, session_state>>

\* every call of one run falls at the same instant of the clock
TxnNext ==
    \/ AddSale
    \/ AddPurchase
    \/ MarkCompleted
    \/ MarkCancelled
    \/ ApplyDiscount
    \/ MarkPaid
    \/ UpdateTransaction
    \/ GetSummary

TxnSpec == TxnInit /\ [][TxnNext]_vars

OtherFields(t) == [t EXCEPT !.status = "", !.updated_date = 0]

\* C12: once a stored transaction is COMPLETED, no step changes any of its
\* fields other than status and updated_date.
C12_CompletedFrozen ==
    [][\A i \in DOMAIN transactions :
           transactions[i].txn.status = COMPLETED
               => OtherFields(transactions'[i].txn) = OtherFields(transactions[i].txn)
      ]_vars

\* the stored transactions of class cls that a summary of start..end must count
Matching(cls, start_date, end_date) ==
    { i \in DOMAIN transactions :
        /\ transactions[i].txn.cls = cls
        /\ transactions[i].txn.status = COMPLETED
        /\ start_date <= transactions[i].txn.transaction_date
        /\ transactions[i].txn.transaction_date <= end_date }

RECURSIVE AmountOf(_)
AmountOf(S) ==
    IF S = {} THEN 0
    ELSE LET i == CHOOSE i \in S : TRUE
         IN transactions[i].txn.total_amount + AmountOf(S \ {i})

RECURSIVE QuantityOf(_)
QuantityOf(S) ==
    IF S = {} THEN 0
    ELSE LET i == CHOOSE i \in S : TRUE
         IN transactions[i].txn.quantity + transactions[i].txn.quantity_kg + QuantityOf(S \ {i})

\* C13: for every period, the sales (purchase) summary counts exactly the stored
\* sales (purchases) that are COMPLETED and dated within start..end inclusive,
\* sums their amounts and quantities, and has average 0 when none matches.
C13_Summaries ==
    \A start_date \in Dates, end_date \in Dates :
        LET s == get_sales_summary(transactions, start_date, end_date)
            p == get_purchase_summary(transactions, start_date, end_date)
            sales == Matching("SaleTransaction", start_date, end_date)
            purchases == Matching("PurchaseTransaction", start_date, end_date)
        IN /\ s.total_sales = Cardinality(sales)
           /\ s.total_revenue = AmountOf(sales)
           /\ s.total_quantity = QuantityOf(sales)
           /\ sales = {} => s.average_order_value = Zero
           /\ p.total_purchases = Cardinality(purchases)
           /\ p.total_amount = AmountOf(purchases)
           /\ p.total_quantity_kg = QuantityOf(purchases)
           /\ purchases = {} => p.average_rate_per_kg = Zero

\* a summary that counted one sale while another sale in the store, REFUNDED,
\* was left out
C13_Witness ==
    /\ last.op = "get_summary"
    /\ last.sales.count = 1
    /\ last.sales.amount > 0
    /\ \E i \in DOMAIN transactions :
           /\ transactions[i].txn.cls = "SaleTransaction"
           /\ transactions[i].txn.status = REFUNDED

\* C17: no sale is constructed with quantity <= 0 or with a transaction_date
\* after today (the construction fails and hands out no object).
C17_ConstructionFails ==
    last.op = "add_sale" /\ last.txn # NoTransaction
        => last.txn.quantity > 0 /\ last.txn.transaction_date <= TodayDate

(***************************************************************************)
(* Failure reports of the ledger's stock operations                        *)
(***************************************************************************)
\* the stock the call recorded in c would leave on an item holding current_stock
StockAfter(c, current_stock) ==
    CASE c.op = "update_stock"    -> c.qty
      [] c.op = "adjust_stock"    -> current_stock + c.qty
      [] c.op = "record_sale"     -> current_stock - c.qty
      [] c.op = "record_purchase" -> current_stock + c.qty

\* C14: update_stock, adjust_stock, record_sale and record_purchase return false
\* and leave every item unchanged when the product_id is not in the ledger or the
\* operation would leave a negative stock.
C14_FailureReturnsFalse ==
    [][(UpdateStock \/ AdjustStock \/ RecordSale \/ RecordPurchase) =>
        LET c == last' IN
        (\/ c.pid \notin Keys(items)
         \/ StockAfter(c, items[IndexOf(items, c.pid)].current_stock) < 0)
            => /\ c.ret = FALSE
               /\ c.exc = ""
               /\ items' = items
      ]_vars

(***************************************************************************)
(* Products and the ProductCatalog (src/src/models/product.py)             *)
(* products is the dict of the catalog: its (key, value) entries in        *)
(* insertion order, the value being the Product object.                    *)
(***************************************************************************)
ValueError == "ValueError"

\* Product.__post_init__: the exception it raises, "" when it raises none
ProductPostInit(self) ==
    IF self.weight_kg <= 0 THEN ValueError
    ELSE IF self.unit_price < 0 THEN ValueError
    ELSE IF self.name = "" THEN ValueError
    ELSE ""

\* the dataclass fields of Product the catalog operations read or write
Product(product_id, name, weight_kg, unit_price, t) ==
    [product_id |-> product_id, name |-> name, weight_kg |-> weight_kg,
     unit_price |-> unit_price, is_active |-> TRUE,
     created_date |-> t, updated_date |-> t]

update_price(self, new_price, t) ==
    IF new_price < 0 THEN [self |-> self, exc |-> ValueError]
    ELSE [self |-> [self EXCEPT !.unit_price = new_price, !.updated_date = t], exc |-> ""]

deactivate(self, t) == [self EXCEPT !.is_active = FALSE, !.updated_date = t]

activate(self, t) == [self EXCEPT !.is_active = TRUE, !.updated_date = t]

\* ProductCatalog._load_default_products
RECURSIVE LoadProductsFrom(_, _, _)
LoadProductsFrom(prods, k, t) ==
    IF k > Len(PRODUCT_WEIGHTS) THEN prods
    ELSE LET weight == PRODUCT_WEIGHTS[k]
             product == Product(ProductId(weight), "Roasted Chana", weight, weight * 10, t)
         IN LoadProductsFrom(DictSet(prods, product.product_id, product), k + 1, t)

load_default_products(t) == LoadProductsFrom(<<>>, 1, t)

add_product(prods, product) ==
    IF product.product_id \in DictKeys(prods)
    THEN [products |-> prods, ret |-> FALSE]
    ELSE [products |-> DictSet(prods, product.product_id, product), ret |-> TRUE]

\* hasattr(product, key) for the keys the callers pass
ProductHasAttr(key) == key \in {"product_id", "name", "weight_kg", "unit_price", "is_active"}

\* setattr(product, key, value); a value is carried as a number, a flag and a
\* string, of which the key's type picks one
ProductSetAttr(self, update) ==
    CASE update.key = "product_id" -> [self EXCEPT !.product_id = update.str]
      [] update.key = "name"       -> [self EXCEPT !.name = update.str]
      [] update.key = "weight_kg"  -> [self EXCEPT !.weight_kg = update.num]
      [] update.key = "unit_price" -> [self EXCEPT !.unit_price = update.num]
      [] update.key = "is_active"  -> [self EXCEPT !.is_active = update.flag]

RECURSIVE ApplyProductUpdates(_, _, _)
ApplyProductUpdates(product, updates, k) ==
    IF k > Len(updates) THEN product
    ELSE IF ProductHasAttr(updates[k].key)
         THEN ApplyProductUpdates(ProductSetAttr(product, updates[k]), updates, k + 1)
         ELSE ApplyProductUpdates(product, updates, k + 1)

update_product(prods, product_id, updates, t) ==
    IF product_id \notin DictKeys(prods)
    THEN [products |-> prods, ret |-> FALSE]
    ELSE LET product == ApplyProductUpdates(DictGet(prods, product_id), updates, 1)
         IN [products |-> DictSet(prods, product_id, [product EXCEPT !.updated_date = t]),
             ret |-> TRUE]

remove_product(prods, product_id) ==
    IF product_id \in DictKeys(prods)
    THEN [products |-> DictPop(prods, product_id), ret |-> TRUE]
    ELSE [products |-> prods, ret |-> FALSE]

get_active_products(prods) == SelectSeq(prods, LAMBDA entry : entry.value.is_active)

\* Product.from_dict on a dict without date strings
product_from_dict(data, t) ==
    Product(data.product_id, data.name, data.weight_kg, data.unit_price, t)

\* ProductCatalog.import_catalog: the loop over products_data from entry k on,
\* inside the try block; an exception ends the loop and keeps what was stored
RECURSIVE ImportProductsFrom(_, _, _, _)
ImportProductsFrom(prods, products_data, k, t) ==
    IF k > Len(products_data) THEN [products |-> prods, ret |-> TRUE]
    ELSE LET product == product_from_dict(products_data[k], t)
         IN IF ProductPostInit(product) # "" THEN [products |-> prods, ret |-> FALSE]
            ELSE ImportProductsFrom(DictSet(prods, product.product_id, product), products_data,
                                    k + 1, t)

import_catalog(prods, products_data, t) == ImportProductsFrom(prods, products_data, 1, t)

(***************************************************************************)
(* The catalog as a state machine                                          *)
(***************************************************************************)
\* product ids the callers pass: a default product, a new one, one never added
CatalogPids == {"RC_1.0KG", "RC_NEW", "RC_NONE"}

Prices == {-1, 150}

ProductCall(op, pid, ret, exc) == [op |-> op, pid |-> pid, ret |-> ret, exc |-> exc]

\* products offered to add_product and import_catalog; the last one is refused
\* by Product.__post_init__
ProductData ==
    { [product_id |-> "RC_NEW", name |-> "Masala Chana", weight_kg |-> 10, unit_price |-> 120],
      [product_id |-> "RC_1.0KG", name |-> "Roasted Chana", weight_kg |-> 10, unit_price |-> 110],
      [product_id |-> "RC_NEW", name |-> "Masala Chana", weight_kg |-> 0, unit_price |-> 120] }

\* entries of an updates dict: a field set to a value a constructor accepts,
\* each constructor check set to a value it rejects, another product's id, and
\* a key that is no field
ProductUpdate(key, num, flag, str) == [key |-> key, num |-> num, flag |-> flag, str |-> str]
ProductUpdates ==
    { ProductUpdate("is_active", 0, FALSE, ""), ProductUpdate("unit_price", -1, FALSE, ""),
      ProductUpdate("weight_kg", 0, FALSE, ""), ProductUpdate("name", 0, FALSE, ""),
      ProductUpdate("product_id", 0, FALSE, "RC_NEW"), ProductUpdate("colour", 0, FALSE, "red") }

ProductUpdateDicts == { u \in SeqsUpTo(ProductUpdates, MaxUpdates) : DistinctKeys(u) }

CatalogInit ==
    /\ products = load_default_products(0)
    /\ now = 0
    /\ last = ProductCall("ProductCatalog", "", TRUE, "")
    /\ obj = load_default_inventory(0)[1]
    /\ items = <<>>
    /\ transactions = <<>>
    /\ session_state = initialize_session_state

\* ProductCatalog.add_product(Product(...)); a construction that raises adds nothing
AddProduct ==
    \E data \in ProductData :
        LET product == product_from_dict(data, now)
            exc == ProductPostInit(product)
            r == add_product(products, product)
        IN /\ products' = IF exc = "" THEN r.products ELSE products
           /\ last' = ProductCall("add_product", data.product_id, exc = "" /\ r.ret, exc)
           /\ UNCHANGED <<obj, items, now, transactions, session_state>>

UpdateProduct ==
    \E product_id \in CatalogPids, updates \in ProductUpdateDicts :
        LET r == update_product(products, product_id, updates, now)
        IN /\ products' = r.products
           /\ last' = ProductCall("update_product", product_id, r.ret, "")
           /\ UNCHANGED <<obj, items, now, transactions, session_state>>

RemoveProduct ==
    \E product_id \in CatalogPids :
        LET r == remove_product(products, product_id)
        IN /\ products' = r.products
           /\ last' = ProductCall("remove_product", product_id, r.ret, "")
           /\ UNCHANGED <<obj, items, now, transactions, session_state>>

\* catalog.get_product(product_id).update_price(new_price)
UpdatePrice ==
    \E product_id \in CatalogPids \cap DictKeys(products), new_price \in Prices :
        LET r == update_price(DictGet(products, product_id), new_price, now)
        IN /\ products' = DictSet(products, product_id, r.self)
           /\ last' = ProductCall("update_price", product_id, r.exc = "", r.exc)
           /\ UNCHANGED <<obj, items, now, transactions, session_state>>

Deactivate ==
    \E product_id \in CatalogPids \cap DictKeys(products) :
        LET product == DictGet(products, product_id)
        IN /\ products' = DictSet(products, product_id, deactivate(product, now))
           /\ last' = ProductCall("deactivate", product_id, TRUE, "")
           /\ UNCHANGED <<obj, items, now, transactions, session_state>>

Activate ==
    \E product_id \in CatalogPids \cap DictKeys(products) :
        LET product == DictGet(products, product_id)
        IN /\ products' = DictSet(products, product_id, activate(product, now))
           /\ last' = ProductCall("activate", product_id, TRUE, "")
           /\ UNCHANGED <<obj, items, now, transactions, session_state>>

ImportCatalog ==
    \E products_data \in SeqsUpTo(ProductData, MaxBatch) :
        LET r == import_catalog(products, products_data, now)
        IN /\ products' = r.products
           /\ last' = ProductCall("import_catalog", "", r.ret, "")
           /\ UNCHANGED <<obj, items, now, transactions, session_state>>

\* every call of one run falls at the same instant of the clock
CatalogNext ==
    \/ AddProduct
    \/ UpdateProduct
    \/ RemoveProduct
    \/ UpdatePrice
    \/ Deactivate
    \/ Activate
    \/ ImportCatalog

CatalogSpec == CatalogInit /\ [][CatalogNext]_vars

\* C18: a product_id that is in the catalog is still in the catalog after the
\* next catalog operation, whichever it is.
C18_NeverDeleted ==
    [][\A product_id \in DictKeys(products) : product_id \in DictKeys(products')]_vars

(***************************************************************************)
(* Validators (src/src/services/data_validation.py, src/src/utils/         *)
(* validators.py).  A dict is a record of tagged values, "absent" standing *)
(* for a key the dict does not have.  Quantities are whole numbers, money  *)
(* is in hundredths of a rupee, dates are day numbers.                     *)
(***************************************************************************)
TypeError == "TypeError"

Rupees(n) == n * 100

Abs(n) == IF n < 0 THEN -n ELSE n

\* float(s) for the strings the callers pass: "5" is the only numeral among them
ParseFloat(s) == IF s = "5" THEN [ok |-> TRUE, n |-> 5] ELSE [ok |-> FALSE, n |-> 0]

\* float(value) inside try/except; unit is 1 for a count and 100 for money
FloatOf(v, unit) ==
    CASE v.t = "num" -> [ok |-> TRUE, n |-> v.n]
      [] v.t = "str" -> [ok |-> ParseFloat(v.s).ok, n |-> ParseFloat(v.s).n * unit]
      [] OTHER       -> [ok |-> FALSE, n |-> 0]

\* datetime.strptime(s, "%Y-%m-%d") for the strings the callers pass
ParseDate(s) ==
    CASE s = "2020-01-01" -> [ok |-> TRUE, n |-> 1]
      [] s = "2999-01-01" -> [ok |-> TRUE, n |-> 3]
      [] OTHER            -> [ok |-> FALSE, n |-> 0]

validate_date(v) ==
    CASE v.t = "date" -> v.n <= TodayDate
      [] v.t = "str"  -> ParseDate(v.s).ok /\ ParseDate(v.s).n <= TodayDate
      [] OTHER        -> FALSE

\* f"{w}kg" for w in config.PRODUCT_WEIGHTS
WeightLabel(weight) ==
    CASE weight = 2 -> "0.2kg" [] weight = 5 -> "0.5kg" [] weight = 10 -> "1.0kg"
      [] weight = 15 -> "1.5kg" [] weight = 20 -> "2.0kg"

validate_product(v) ==
    v.t = "str" /\ v.s \in { WeightLabel(PRODUCT_WEIGHTS[k]) : k \in DOMAIN PRODUCT_WEIGHTS }

validate_quantity(v) ==
    LET qty == FloatOf(v, 1) IN qty.ok /\ qty.n > 0 /\ qty.n <= 10000

validate_stock_quantity(v) ==
    LET qty == FloatOf(v, 1)
        max_limit == IF HasConfigAttr("MAX_STOCK_LIMIT") THEN ConfigAttr("MAX_STOCK_LIMIT")
                     ELSE 100000
    IN qty.ok /\ qty.n >= 0 /\ qty.n <= max_limit

validate_price(v) ==
    LET price_val == FloatOf(v, 100) IN price_val.ok /\ price_val.n > 0 /\ price_val.n <= Rupees(10000)

validate_weight(v) ==
    LET weight_val == FloatOf(v, 1) IN weight_val.ok /\ weight_val.n > 0 /\ weight_val.n <= 1000

SALES_CHANNELS ==
    <<"Amazon FBA", "Amazon Easyship", "Flipkart", "Others", "Direct Sales", "Retail", "Wholesale">>

validate_sales_channel(v) ==
    v.t = "str" /\ v.s \in { SALES_CHANNELS[k] : k \in DOMAIN SALES_CHANNELS }

\* re.match(r'^[A-Za-z0-9\-]{5,20}$', s) for the strings the callers pass
validate_order_id(v) == v.t = "str" /\ v.s = "ORD-12345"

\* len(s.strip()) >= 2 for the strings the callers pass
validate_supplier_name(v) == v.t = "str" /\ v.s \notin {"", "A"}

\* re.match(r'^[A-Za-z0-9\-/]{3,20}$', s) for the strings the callers pass
validate_invoice_number(v) == v.t = "str" /\ v.s = "INV-001"

\* re.match(r'^BATCH-\d{8}-\d{1,3}$', s) for the strings the callers pass
validate_batch_number(v) == v.t = "str" /\ v.s = "BATCH-20240101-1"

\* [msg] if cond else []
If(cond, msg) == IF cond THEN <<msg>> ELSE <<>>

\* statements in sequence inside a try block: an exception skips what follows
Then(r, next) ==
    IF r.exc # "" THEN r ELSE [errors |-> r.errors \o next.errors, exc |-> next.exc]

Done(errors) == [errors |-> errors, exc |-> ""]

Raise(exc) == [errors |-> <<>>, exc |-> exc]

\* the required-fields loop of validate_sale_data, validate_purchase_data and
\* validate_production_data
MissingField(v, field) == If(~Has(v) \/ ~Truthy(v), "Missing required field: " \o field)

TOLERANCE == 1    \* 0.01 rupee

MISMATCH == "Total amount mismatch"

AmountCheck_unchecked(quantity, price, total_amount) ==
    IF quantity.t = "num" /\ price.t = "num" /\ total_amount.t = "num"
    THEN Done(<<>>)
    ELSE Raise(TypeError)

\* abs(total_amount - quantity * price) > 0.01 on values of any type: int * int
\* is a number, str * int is a str, and a difference with a non-number raises
AmountCheck(quantity, price, total_amount) ==
    IF quantity.t = "num" /\ price.t = "num" /\ total_amount.t = "num"
    THEN Done(If(Abs(total_amount.n - quantity.n * price.n) > TOLERANCE, MISMATCH))
    ELSE Raise(TypeError)

\* the try block of validate_sale_data
SaleChecks(sale_data) ==
    Then(Done(MissingField(sale_data.date, "date")
              \o MissingField(sale_data.product, "product")
              \o MissingField(sale_data.quantity, "quantity")
              \o MissingField(sale_data.price, "price")
              \o MissingField(sale_data.channel, "channel")
              \o If(Has(sale_data.date) /\ ~validate_date(sale_data.date),
                    "Invalid date format or future date")
              \o If(Has(sale_data.product) /\ ~validate_product(sale_data.product),
                    "Invalid product")
              \o If(Has(sale_data.quantity) /\ ~validate_quantity(sale_data.quantity),
                    "Quantity must be a positive number")
              \o If(Has(sale_data.price) /\ ~validate_price(sale_data.price),
                    "Price must be a positive number")
              \o If(Has(sale_data.channel) /\ ~validate_sales_channel(sale_data.channel),
                    "Invalid sales channel")
              \o If(Truthy(sale_data.order_id) /\ ~validate_order_id(sale_data.order_id),
                    "Invalid order ID format")),
         IF Has(sale_data.quantity) /\ Has(sale_data.price) /\ Has(sale_data.total_amount)
         THEN AmountCheck(sale_data.quantity, sale_data.price, sale_data.total_amount)
         ELSE Done(<<>>))

\* what a validate_<type>_data returns: is_valid, errors, and the exception that
\* leaves the call, "" when none does
Returned(errors) == [is_valid |-> Len(errors) = 0, errors |-> errors, exc |-> ""]

\* except Exception as e: errors.append(f"Validation error: {str(e)}")
Except(r) ==
    Returned(IF r.exc # "" THEN Append(r.errors, "Validation error: " \o r.exc) ELSE r.errors)

NoExcept(r) == IF r.exc # "" THEN [is_valid |-> FALSE, errors |-> r.errors, exc |-> r.exc]
               ELSE Returned(r.errors)

validate_sale_data_no_except(sale_data) == NoExcept(SaleChecks(sale_data))

validate_sale_data(sale_data) == Except(SaleChecks(sale_data))

\* the try block of validate_purchase_data
PurchaseChecks(purchase_data) ==
    Then(Done(MissingField(purchase_data.date, "date")
              \o MissingField(purchase_data.supplier, "supplier")
              \o MissingField(purchase_data.material_type, "material_type")
              \o MissingField(purchase_data.quantity, "quantity")
              \o MissingField(purchase_data.rate_per_kg, "rate_per_kg")
              \o If(Has(purchase_data.date) /\ ~validate_date(purchase_data.date),
                    "Invalid date format or future date")
              \o If(Has(purchase_data.supplier) /\ ~validate_supplier_name(purchase_data.supplier),
                    "Supplier name must be at least 2 characters")
              \o If(Has(purchase_data.quantity) /\ ~validate_weight(purchase_data.quantity),
                    "Quantity must be a positive number")
              \o If(Has(purchase_data.rate_per_kg) /\ ~validate_price(purchase_data.rate_per_kg),
                    "Rate per kg must be a positive number")
              \o If(Truthy(purchase_data.invoice_number)
                        /\ ~validate_invoice_number(purchase_data.invoice_number),
                    "Invalid invoice number format")),
         IF /\ Has(purchase_data.quantity) /\ Has(purchase_data.rate_per_kg)
            /\ Has(purchase_data.total_amount)
         THEN AmountCheck(purchase_data.quantity, purchase_data.rate_per_kg,
                          purchase_data.total_amount)
         ELSE Done(<<>>))

validate_purchase_data(purchase_data) == Except(PurchaseChecks(purchase_data))

\* the loop over output_data.items() from entry k on; total is total_output so far
RECURSIVE OutputLoop(_, _, _)
OutputLoop(output_items, k, total) ==
    IF k > Len(output_items)
    THEN Done(If(total = 0, "At least one product output must be greater than 0"))
    ELSE LET product == output_items[k].product
             quantity == output_items[k].quantity
             found == If(~validate_product(product), "Invalid product in output")
                      \o If(~validate_quantity(quantity), "Invalid quantity")
         IN IF quantity.t # "num" THEN [errors |-> found, exc |-> TypeError]
            ELSE Then(Done(found), OutputLoop(output_items, k + 1, total + quantity.n))

\* the try block of validate_production_data; output_items are the items of
\* output_data when it is a dict
ProductionChecks(production_data) ==
    Then(Done(MissingField(production_data.date, "date")
              \o MissingField(production_data.batch_number, "batch_number")
              \o MissingField(production_data.raw_material_used, "raw_material_used")
              \o If(\/ ~Has(production_data.output_data)
                    \/ IF production_data.output_data.t = "dict"
                       THEN production_data.output_items = <<>>
                       ELSE ~Truthy(production_data.output_data),
                    "Missing required field: output_data")
              \o If(Has(production_data.date) /\ ~validate_date(production_data.date),
                    "Invalid date format or future date")
              \o If(/\ Has(production_data.batch_number)
                    /\ ~validate_batch_number(production_data.batch_number),
                    "Invalid batch number format")
              \o If(/\ Has(production_data.raw_material_used)
                    /\ ~validate_weight(production_data.raw_material_used),
                    "Raw material used must be a positive number")),
    Then(IF ~Has(production_data.output_data) THEN Done(<<>>)
         ELSE IF production_data.output_data.t # "dict"
              THEN Done(<<"Output data must be a dictionary">>)
              ELSE OutputLoop(production_data.output_items, 1, 0),
         IF ~Has(production_data.efficiency) THEN Done(<<>>)
         ELSE IF production_data.efficiency.t # "num" THEN Raise(TypeError)
         ELSE Done(If(~(0 <= production_data.efficiency.n
                            /\ production_data.efficiency.n <= 200),
                      "Efficiency must be between 0% and 200%"))))

validate_production_data(production_data) == Except(ProductionChecks(production_data))

\* a < b on values of any type; "abc" is the only string passed where values are
\* compared, and "abc" < "abc" is false
Less(a, b) ==
    CASE a.t = "num" /\ b.t = "num" -> [exc |-> "", val |-> a.n < b.n]
      [] a.t = "str" /\ b.t = "str" /\ a.s = b.s -> [exc |-> "", val |-> FALSE]
      [] OTHER -> [exc |-> TypeError, val |-> FALSE]

\* errors.append(msg) if a < b, inside the try block
IfLess(a, b, msg) ==
    IF Less(a, b).exc # "" THEN Raise(Less(a, b).exc) ELSE Done(If(Less(a, b).val, msg))

StockFieldCheck(v, field) ==
    If(Has(v) /\ v.t # "None" /\ ~validate_stock_quantity(v), field \o " must be a non-negative number")

\* the try block of validate_stock_data
StockChecks(stock_data) ==
    Then(Done(If(~Has(stock_data.product) \/ stock_data.product.t = "None",
                 "Missing required field: product")
              \o If(~Has(stock_data.current_stock) \/ stock_data.current_stock.t = "None",
                    "Missing required field: current_stock")
              \o If(Has(stock_data.product) /\ ~validate_product(stock_data.product),
                    "Invalid product")
              \o StockFieldCheck(stock_data.current_stock, "current_stock")
              \o StockFieldCheck(stock_data.min_stock, "min_stock")
              \o StockFieldCheck(stock_data.max_stock, "max_stock")),
    Then(IF Has(stock_data.current_stock) /\ Has(stock_data.min_stock)
         THEN Then(IfLess(stock_data.current_stock, Num(0), "Current stock cannot be negative"),
                   IfLess(stock_data.min_stock, Num(0), "Minimum stock cannot be negative"))
         ELSE Done(<<>>),
    Then(IF Has(stock_data.min_stock) /\ Has(stock_data.max_stock)
         THEN IfLess(stock_data.max_stock, stock_data.min_stock,
                     "Minimum stock cannot be greater than maximum stock")
         ELSE Done(<<>>),
         Done(If(/\ Has(stock_data.unit_price) /\ stock_data.unit_price.t # "None"
                 /\ ~validate_price(stock_data.unit_price),
                 "Unit price must be a positive number")))))

validate_stock_data(stock_data) == Except(StockChecks(stock_data))

\* DataValidator.validate_required of validators.py: its message, "" when valid
validate_required(v, field_name) ==
    IF ~Has(v) \/ v.t = "None" THEN field_name \o " is required"
    ELSE IF v.t = "str" /\ v.s = "" THEN field_name \o " cannot be empty"
    ELSE ""

\* DataValidator.validate_number_range: its message, "" when valid
validate_number_range(v, unit, min_val, max_val, field_name) ==
    LET num_value == FloatOf(v, unit)
    IN IF ~num_value.ok THEN field_name \o " must be a valid number"
       ELSE IF num_value.n < min_val THEN field_name \o " must be at least"
       ELSE IF num_value.n > max_val THEN field_name \o " cannot exceed"
       ELSE ""

\* VALIDATION_LIMITS of constants.py, in hundredths of a rupee
MIN_PRICE == 1
MAX_PRICE == Rupees(100000)

\* [message] unless the validator found the value valid
Message(message) == If(message # "", message)

\* BusinessRuleValidator.validate_transaction_amount, called outside any try block
validate_transaction_amount(quantity, unit_price, total_amount) ==
    IF quantity.t = "num" /\ unit_price.t = "num" /\ total_amount.t = "num"
    THEN Done(If(Abs(total_amount.n - quantity.n * unit_price.n) > TOLERANCE, MISMATCH))
    ELSE Raise(TypeError)

\* FormValidator.validate_sale_form: no try block, an exception leaves the call
validate_sale_form(form_data) ==
    NoExcept(
    Then(Done(Message(validate_required(form_data.product, "Product"))
              \o Message(validate_required(form_data.quantity, "Quantity"))
              \o Message(validate_required(form_data.unit_price, "Unit Price"))
              \o Message(validate_required(form_data.sales_channel, "Sales Channel"))
              \o (IF Has(form_data.quantity)
                  THEN Message(validate_number_range(form_data.quantity, 1, 1, 10000, "Quantity"))
                  ELSE <<>>)
              \o (IF Has(form_data.unit_price)
                  THEN Message(validate_number_range(form_data.unit_price, 100,
                                                     MIN_PRICE, MAX_PRICE, "Price"))
                  ELSE <<>>)
              \o If(/\ Has(form_data.sales_channel)
                    /\ ~validate_sales_channel(form_data.sales_channel),
                    "Sales channel must be one of")),
    Then(IF ~Truthy(form_data.order_id) THEN Done(<<>>)
         ELSE IF form_data.order_id.t # "str" THEN Raise(TypeError)
         ELSE Done(If(~validate_order_id(form_data.order_id), "Order ID must be 5-20 characters")),
         IF /\ Has(form_data.quantity) /\ Has(form_data.unit_price)
            /\ Has(form_data.total_amount)
         THEN validate_transaction_amount(form_data.quantity, form_data.unit_price,
                                          form_data.total_amount)
         ELSE Done(<<>>))))

(***************************************************************************)
(* The validators applied to input dicts.  A run starts with a dict in     *)
(* last.data and one validator is called on it.                            *)
(***************************************************************************)
\* the dict without any key
EmptyDict ==
    [date |-> Absent, product |-> Absent, quantity |-> Absent, price |-> Absent,
     channel |-> Absent, order_id |-> Absent, total_amount |-> Absent,
     unit_price |-> Absent, sales_channel |-> Absent,
     supplier |-> Absent, material_type |-> Absent, rate_per_kg |-> Absent,
     invoice_number |-> Absent,
     batch_number |-> Absent, raw_material_used |-> Absent, output_data |-> Absent,
     output_items |-> <<>>, efficiency |-> Absent,
     current_stock |-> Absent, min_stock |-> Absent, max_stock |-> Absent]

Dict == [t |-> "dict", n |-> 0, s |-> ""]

SaleInputs ==
    { [EmptyDict EXCEPT !.date = d, !.product = p, !.quantity = q, !.price = pr,
                        !.channel = c, !.unit_price = up, !.sales_channel = sc,
                        !.total_amount = ta, !.order_id = o] :
        o \in {Absent, Str("ORD-12345"), Str("x")},
        d \in {Absent, Date(2), Date(3)},
        p \in {Absent, Str("1.0kg")},
        q \in {Absent, Num(5), Num(0), Str("5"), None},
        pr \in {Absent, Num(Rupees(100)), Str("abc")},
        c \in {Absent, Str("Retail"), Str("eBay")},
        up \in {Absent, Num(Rupees(100))},
        sc \in {Absent, Str("Retail")},
        ta \in {Absent, Num(Rupees(500)), Num(Rupees(400)), Num(Rupees(500) + 2), Str("500")} }

PurchaseInputs ==
    { [EmptyDict EXCEPT !.date = d, !.supplier = su, !.material_type = m, !.quantity = q,
                        !.rate_per_kg = r, !.invoice_number = i, !.total_amount = ta] :
        d \in {Absent, Str("2020-01-01")},
        su \in {Absent, Str("A"), Str("Acme")},
        m \in {Absent, Str("Raw Chana")},
        q \in {Absent, Num(50), Str("5"), None},
        r \in {Absent, Num(Rupees(40)), Num(0)},
        i \in {Absent, Str("INV-001"), Str("??")},
        ta \in {Absent, Num(Rupees(2000)), Num(1), Str("abc")} }

\* items of an output_data dict: pairs (product, quantity)
OutputPairs ==
    { [product |-> Str("1.0kg"), quantity |-> Num(10)],
      [product |-> Str("1.0kg"), quantity |-> Str("5")],
      [product |-> Str("0.5kg"), quantity |-> Num(0)],
      [product |-> Str("9kg"), quantity |-> None] }

OutputItems ==
    { o \in SeqsUpTo(OutputPairs, 2) : \A i, j \in DOMAIN o : o[i].product = o[j].product => i = j }

ProductionInputs ==
    { [EmptyDict EXCEPT !.date = d, !.batch_number = b, !.raw_material_used = r,
                        !.output_data = od[1], !.output_items = od[2], !.efficiency = e] :
        d \in {Absent, Date(2)},
        b \in {Absent, Str("BATCH-20240101-1"), Str("B1")},
        r \in {Absent, Num(100), Str("abc")},
        od \in ({ <<Dict, o>> : o \in OutputItems }
                    \cup { <<Absent, <<>> >>, <<None, <<>> >>, <<Str("x"), <<>> >> }),
        e \in {Absent, Num(90), Num(250), Str("abc"), None} }

StockInputs ==
    { [EmptyDict EXCEPT !.product = p, !.current_stock = cs, !.min_stock = mn,
                        !.max_stock = mx, !.unit_price = up] :
        p \in {Absent, None, Str("1.0kg"), Str("9kg")},
        cs \in {Absent, None, Num(5), Num(-1), Num(20000), Str("abc")},
        mn \in {Absent, None, Num(10), Num(-1), Str("abc")},
        mx \in {Absent, None, Num(100), Num(5), Str("abc")},
        up \in {Absent, None, Num(Rupees(100)), Num(0)} }

ValidatorInputs == SaleInputs \cup PurchaseInputs \cup ProductionInputs \cup StockInputs

Validation(op, data, r) ==
    [op |-> op, data |-> data, is_valid |-> r.is_valid, errors |-> r.errors, exc |-> r.exc]

ValidatorInit ==
    /\ last \in { Validation("input", data, Returned(<<>>)) : data \in ValidatorInputs }
    /\ now = 0
    /\ obj = load_default_inventory(0)[1]
    /\ items = <<>>
    /\ transactions = <<>>
    /\ products = <<>>
    /\ session_state = initialize_session_state

ValidateSaleData ==
    /\ last.op = "input"
    /\ last' = Validation("validate_sale_data", last.data, validate_sale_data(last.data))
    /\ UNCHANGED <<obj, items, now, transactions, products, session_state>>

ValidatePurchaseData ==
    /\ last.op = "input"
    /\ last' = Validation("validate_purchase_data", last.data, validate_purchase_data(last.data))
    /\ UNCHANGED <<obj, items, now, transactions, products, session_state>>

ValidateProductionData ==
    /\ last.op = "input"
    /\ last' = Validation("validate_production_data", last.data,
                          validate_production_data(last.data))
    /\ UNCHANGED <<obj, items, now, transactions, products, session_state>>

ValidateStockData ==
    /\ last.op = "input"
    /\ last' = Validation("validate_stock_data", last.data, validate_stock_data(last.data))
    /\ UNCHANGED <<obj, items, now, transactions, products, session_state>>

ValidateSaleForm ==
    /\ last.op = "input"
    /\ last' = Validation("validate_sale_form", last.data, validate_sale_form(last.data))
    /\ UNCHANGED <<obj, items, now, transactions, products, session_state>>

ValidatorNext ==
    \/ ValidateSaleData
    \/ ValidatePurchaseData
    \/ ValidateProductionData
    \/ ValidateStockData
    \/ ValidateSaleForm

ValidatorSpec == ValidatorInit /\ [][ValidatorNext]_vars

(***************************************************************************)
(* Properties of the validators                                            *)
(***************************************************************************)
Contains(errors, msg) == \E k \in DOMAIN errors : errors[k] = msg

\* a record validate_sale_data finds nothing wrong with, its total left aside
CompleteSale(d) ==
    /\ validate_date(d.date) /\ validate_product(d.product) /\ validate_sales_channel(d.channel)
    /\ d.quantity.t = "num" /\ validate_quantity(d.quantity)
    /\ d.price.t = "num" /\ validate_price(d.price)
    /\ ~Truthy(d.order_id) \/ validate_order_id(d.order_id)
    /\ d.total_amount.t = "num"

\* a form validate_sale_form finds nothing wrong with, its total left aside
CompleteForm(d) ==
    /\ Truthy(d.product) /\ validate_sales_channel(d.sales_channel)
    /\ d.quantity.t = "num" /\ 1 <= d.quantity.n /\ d.quantity.n <= 10000
    /\ d.unit_price.t = "num" /\ MIN_PRICE <= d.unit_price.n /\ d.unit_price.n <= MAX_PRICE
    /\ ~Truthy(d.order_id) \/ validate_order_id(d.order_id)
    /\ d.total_amount.t = "num"

\* valid when the total is quantity x price; invalid, with the mismatch message,
\* when it is off by more than the tolerance
TotalRule(r, quantity, price, total_amount) ==
    /\ total_amount.n = quantity.n * price.n
           => r.is_valid /\ ~Contains(r.errors, MISMATCH)
    /\ Abs(total_amount.n - quantity.n * price.n) > TOLERANCE
           => ~r.is_valid /\ Contains(r.errors, MISMATCH)

\* C15 as stated: whatever else the record holds, a sale record with numbers
\* under quantity, unit_price and total_amount validates true when the total is
\* quantity x unit_price, and false with the mismatch message when it is off by
\* more than 0.01.
C15_AnyRecord ==
    /\ last.op \in {"validate_sale_data", "validate_sale_form"}
    /\ last.data.quantity.t = "num" /\ last.data.unit_price.t = "num"
    /\ last.data.total_amount.t = "num"
    => TotalRule(last, last.data.quantity, last.data.unit_price, last.data.total_amount)

\* C15, amended: a sale record whose other fields are present and valid validates
\* true when its total is quantity x price, and false with the mismatch message
\* when it is off by more than 0.01; validate_sale_data reads the price under
\* 'price', validate_sale_form under 'unit_price'.
C15_TotalConsistency ==
    /\ last.op = "validate_sale_data" /\ CompleteSale(last.data)
           => TotalRule(last, last.data.quantity, last.data.price, last.data.total_amount)
    /\ last.op = "validate_sale_form" /\ CompleteForm(last.data)
           => TotalRule(last, last.data.quantity, last.data.unit_price, last.data.total_amount)

\* a complete record whose total of 400 for 5 x 100 was refused with the message
C15_Witness ==
    /\ last.op = "validate_sale_data" /\ CompleteSale(last.data)
    /\ last.data.total_amount = Num(Rupees(400))
    /\ last.errors = <<MISMATCH>>

\* C16: each validate_<type>_data returns (is_valid, errors) for every input
\* dict, no exception leaves the call, and is_valid is true exactly when errors
\* is empty.
C16_NeverRaises ==
    last.op \in {"validate_sale_data", "validate_purchase_data",
                 "validate_production_data", "validate_stock_data"}
        => last.exc = "" /\ (last.is_valid <=> last.errors = <<>>)

\* a wrongly typed value made the arithmetic of validate_sale_data fail, and the
\* call returned the failure as an error
C16_Witness ==
    /\ last.op = "validate_sale_data"
    /\ last.data.quantity = Str("5") /\ last.data.total_amount.t = "num"
    /\ last.exc = "" /\ ~last.is_valid
    /\ Contains(last.errors, "Validation error: TypeError")

(***************************************************************************)
(* StockCalculator (src/src/services/stock_calculator.py).  A DataFrame is *)
(* the sequence of its rows.                                               *)
(***************************************************************************)
\* StockCalculator.__init__: the calculator, or the exception the constructor raises
NewStockCalculator ==
    IF ~HasConfigAttr("MIN_STOCK_THRESHOLD") \/ ~HasConfigAttr("CRITICAL_STOCK_THRESHOLD")
    THEN [exc |-> AttributeError, min_stock_threshold |-> 0, critical_stock_threshold |-> 0]
    ELSE [exc |-> "",
          min_stock_threshold |-> ConfigAttr("MIN_STOCK_THRESHOLD"),
          critical_stock_threshold |-> ConfigAttr("CRITICAL_STOCK_THRESHOLD")]

\* sales_data[sales_data['product'] == product]['total_amount'].sum()
RECURSIVE RevenueOf(_, _)
RevenueOf(sales_rows, product) ==
    IF sales_rows = <<>> THEN 0
    ELSE (IF Head(sales_rows).product = product THEN Head(sales_rows).total_amount ELSE 0)
         + RevenueOf(Tail(sales_rows), product)

\* product_revenue[product] = revenue: an existing key keeps its place
PutRevenue(product_revenue, entry) ==
    IF \E i \in DOMAIN product_revenue : product_revenue[i].product = entry.product
    THEN [i \in DOMAIN product_revenue |->
             IF product_revenue[i].product = entry.product THEN entry ELSE product_revenue[i]]
    ELSE Append(product_revenue, entry)

\* the loop over stock_data.iterrows() from row k on
RECURSIVE ProductRevenue(_, _, _, _)
ProductRevenue(product_revenue, stock_rows, sales_data, k) ==
    IF k > Len(stock_rows) THEN product_revenue
    ELSE LET product == stock_rows[k].product_name
             revenue == IF sales_data.columns THEN RevenueOf(sales_data.rows, product)
                        ELSE stock_rows[k].stock_value
         IN ProductRevenue(PutRevenue(product_revenue, [product |-> product, revenue |-> revenue]),
                           stock_rows, sales_data, k + 1)

\* sorted(..., key=revenue, reverse=True) is stable: an entry goes behind the
\* entries of the same revenue that came before it
InsertByRevenue(sorted, entry) ==
    LET ahead == { i \in DOMAIN sorted : sorted[i].revenue >= entry.revenue }
        n == Cardinality(ahead)
    IN SubSeq(sorted, 1, n) \o <<entry>> \o SubSeq(sorted, n + 1, Len(sorted))

RECURSIVE SortByRevenue(_)
SortByRevenue(entries) ==
    IF entries = <<>> THEN <<>>
    ELSE InsertByRevenue(SortByRevenue(SubSeq(entries, 1, Len(entries) - 1)),
                         entries[Len(entries)])

RECURSIVE SumRevenue(_)
SumRevenue(entries) ==
    IF entries = <<>> THEN 0 ELSE Head(entries).revenue + SumRevenue(Tail(entries))

\* cumulative_percentage <= bound, the percentage being (cumulative / total) * 100
\* when total > 0 and 0 otherwise
PercentageAtMost(cumulative_revenue, total_revenue, bound) ==
    IF total_revenue > 0 THEN cumulative_revenue * 100 <= bound * total_revenue ELSE 0 <= bound

Category(cumulative_revenue, total_revenue) ==
    IF PercentageAtMost(cumulative_revenue, total_revenue, 80) THEN "A"
    ELSE IF PercentageAtMost(cumulative_revenue, total_revenue, 95) THEN "B"
    ELSE "C"

\* the classification loop over sorted_products from entry k on
RECURSIVE Classify(_, _, _, _)
Classify(sorted_products, total_revenue, k, cumulative_before) ==
    IF k > Len(sorted_products) THEN <<>>
    ELSE LET revenue == sorted_products[k].revenue
             cumulative_revenue == cumulative_before + revenue
         IN <<[product |-> sorted_products[k].product,
               category |-> Category(cumulative_revenue, total_revenue),
               revenue |-> revenue,
               rank |-> k]>>
            \o Classify(sorted_products, total_revenue, k + 1, cumulative_revenue)

\* StockCalculator.calculate_abc_analysis: the dict it returns, in insertion order
calculate_abc_analysis(stock_rows, sales_data) ==
    IF sales_data.none \/ stock_rows = <<>> THEN <<>>
    ELSE LET product_revenue == ProductRevenue(<<>>, stock_rows, sales_data, 1)
             sorted_products == SortByRevenue(product_revenue)
             total_revenue == SumRevenue(product_revenue)
         IN Classify(sorted_products, total_revenue, 1, 0)

\* stock_data.columns: the keys of the rows; a frame made from no rows has none
Columns(rows) == IF rows = <<>> THEN {} ELSE DOMAIN rows[1]

\* stock_data[name] = <a value for each row>: the frame object itself gets the column
SetColumn(rows, name, value(_)) == [i \in DOMAIN rows |-> (name :> value(rows[i])) @@ rows[i]]

\* stock_data[name].sum()
RECURSIVE SumColumn(_, _)
SumColumn(rows, name) ==
    IF rows = <<>> THEN 0 ELSE Head(rows)[name] + SumColumn(Tail(rows), name)

\* len(stock_data[cond]) for the conditions of calculate_stock_summary
CountRows(rows, cond(_)) == Cardinality({ i \in DOMAIN rows : cond(rows[i]) })

\* StockCalculator._get_empty_summary
EmptySummary ==
    [total_products |-> 0, total_stock_units |-> 0, total_stock_value |-> 0,
     low_stock_items |-> 0, critical_stock_items |-> 0, overstocked_items |-> 0,
     out_of_stock_items |-> 0, average_stock_level |-> Zero, stock_turnover_ratio |-> 0,
     reorder_recommendations |-> <<>>, product_breakdown |-> <<>>]

\* row.get('product_name', row.get('product', 'Unknown'))
ProductOf(row) == Get(row, "product_name", Get(row, "product", "Unknown"))

\* one round of the loop of _generate_reorder_recommendations; urgency "" when
\* the round reaches `continue`.  current_stock <= min_stock * 1.5 is compared
\* as 2 * current_stock <= 3 * min_stock.
ReorderRecommendation(self, row) ==
    LET current_stock == Get(row, "current_stock", 0)
        min_stock == Get(row, "min_stock", self.min_stock_threshold)
        urgency == IF current_stock <= self.critical_stock_threshold THEN "Critical"
                   ELSE IF current_stock <= min_stock THEN "High"
                   ELSE IF 2 * current_stock <= 3 * min_stock THEN "Medium"
                   ELSE ""
    IN [product |-> ProductOf(row), current_stock |-> current_stock, min_stock |-> min_stock,
        urgency |-> urgency,
        recommended_quantity |-> Max(min_stock * 2 - current_stock, min_stock)]

\* StockCalculator._generate_reorder_recommendations
generate_reorder_recommendations(self, stock_data) ==
    SelectSeq([i \in DOMAIN stock_data |-> ReorderRecommendation(self, stock_data[i])],
              LAMBDA entry : entry.urgency # "")

\* StockCalculator._calculate_product_breakdown
calculate_product_breakdown(stock_data) ==
    [i \in DOMAIN stock_data |->
        LET row == stock_data[i]
            current_stock == Get(row, "current_stock", 0)
            value == Get(row, "stock_value", 0)
        IN [product |-> ProductOf(row), current_stock |-> current_stock,
            stock_value |-> IF "unit_price" \in DOMAIN row /\ value = 0
                            THEN current_stock * row.unit_price ELSE value,
            percentage_of_total |-> 0]]

\* StockCalculator.calculate_stock_summary: the summary it returns and the
\* frame the caller passed, as the call leaves it
calculate_stock_summary(self, stock_data) ==
    IF stock_data = <<>> THEN [summary |-> EmptySummary, stock_data |-> stock_data]
    ELSE LET columns == Columns(stock_data)
             calculated == /\ "stock_value" \notin columns
                           /\ "current_stock" \in columns /\ "unit_price" \in columns
             after == IF calculated
                      THEN SetColumn(stock_data, "calculated_value",
                                     LAMBDA r : r.current_stock * r.unit_price)
                      ELSE stock_data
             counted == "current_stock" \in columns
             compared == counted /\ "min_stock" \in columns
         IN [summary |->
               [total_products |-> Len(stock_data),
                total_stock_units |-> IF counted THEN SumColumn(stock_data, "current_stock") ELSE 0,
                total_stock_value |->
                    IF "stock_value" \in columns THEN SumColumn(stock_data, "stock_value")
                    ELSE IF calculated THEN SumColumn(after, "calculated_value")
                    ELSE 0,
                low_stock_items |->
                    IF compared THEN CountRows(after, LAMBDA r : r.current_stock < r.min_stock)
                    ELSE 0,
                critical_stock_items |->
                    IF compared
                    THEN CountRows(after, LAMBDA r : r.current_stock < self.critical_stock_threshold)
                    ELSE 0,
                overstocked_items |->
                    IF counted /\ "max_stock" \in columns
                    THEN CountRows(after, LAMBDA r : r.current_stock > r.max_stock)
                    ELSE 0,
                out_of_stock_items |->
                    IF counted THEN CountRows(after, LAMBDA r : r.current_stock = 0) ELSE 0,
                average_stock_level |->
                    IF counted THEN Ratio(SumColumn(stock_data, "current_stock"), Len(stock_data))
                    ELSE Zero,
                stock_turnover_ratio |-> 0,
                reorder_recommendations |-> generate_reorder_recommendations(self, after),
                product_breakdown |-> calculate_product_breakdown(after)],
             stock_data |-> after]

\* StockCalculator._calculate_weighted_average_valuation
calculate_weighted_average_valuation(stock_data) ==
    IF "current_stock" \in Columns(stock_data) /\ "unit_price" \in Columns(stock_data)
    THEN LET total_value ==
                 SumColumn(SetColumn(stock_data, "product", LAMBDA r : r.current_stock * r.unit_price),
                           "product")
             total_units == SumColumn(stock_data, "current_stock")
         IN [total_value |-> total_value,
             average_value_per_unit |-> IF total_units > 0 THEN Ratio(total_value, total_units)
                                        ELSE Zero,
             method |-> "weighted_average"]
    ELSE [total_value |-> 0, average_value_per_unit |-> Zero, method |-> "weighted_average"]

\* StockCalculator.calculate_stock_valuation: the valuation it returns and the
\* frame the caller passed, as the call leaves it
calculate_stock_valuation(stock_data, method) ==
    IF stock_data = <<>>
    THEN [valuation |-> [total_value |-> 0, average_value_per_unit |-> Zero],
          stock_data |-> stock_data]
    ELSE IF method = "current"
    THEN IF "current_stock" \in Columns(stock_data) /\ "unit_price" \in Columns(stock_data)
         THEN LET after == SetColumn(stock_data, "value",
                                     LAMBDA r : r.current_stock * r.unit_price)
                  total_value == SumColumn(after, "value")
                  total_units == SumColumn(after, "current_stock")
              IN [valuation |->
                     [total_value |-> total_value,
                      average_value_per_unit |->
                          IF total_units > 0 THEN Ratio(total_value, total_units) ELSE Zero,
                      method |-> method],
                  stock_data |-> after]
         ELSE [valuation |-> [total_value |-> 0, average_value_per_unit |-> Zero,
                              method |-> method],
               stock_data |-> stock_data]
    ELSE IF method = "fifo"
    THEN [valuation |-> [total_value |-> 0, average_value_per_unit |-> Zero, method |-> "fifo"],
          stock_data |-> stock_data]
    ELSE IF method = "weighted_average"
    THEN [valuation |-> calculate_weighted_average_valuation(stock_data),
          stock_data |-> stock_data]
    ELSE [valuation |-> [total_value |-> 0, average_value_per_unit |-> Zero, method |-> method],
          stock_data |-> stock_data]

\* StockCalculator._calculate_sales_velocity: total_quantity / days as a Ratio.
\* sales_data.columns tells whether the frame has a 'product' column.
calculate_sales_velocity(product, sales_data) ==
    LET product_sales == IF sales_data.columns
                         THEN SelectSeq(sales_data.rows, LAMBDA s : s.product = product)
                         ELSE <<>>
    IN IF product_sales = <<>> THEN Zero
       ELSE LET total_quantity == IF "quantity" \in Columns(product_sales)
                                  THEN SumColumn(product_sales, "quantity") ELSE 0
                dates == { product_sales[i].date : i \in DOMAIN product_sales }
                date_range == (CHOOSE d \in dates : \A e \in dates : e <= d)
                                - (CHOOSE d \in dates : \A e \in dates : d <= e)
                days == IF "date" \in Columns(product_sales) THEN Max(date_range, 1) ELSE 30
            IN Ratio(total_quantity, days)

\* one round of the loop of calculate_reorder_points; min_stock * 1.5 is kept as
\* the Ratio 3 * min_stock / 2 and days_of_stock_remaining as current_stock / velocity
ReorderPoint(self, row, sales_data) ==
    LET current_stock == Get(row, "current_stock", 0)
        min_stock == Get(row, "min_stock", self.min_stock_threshold)
        velocity == IF sales_data.none THEN Zero
                    ELSE calculate_sales_velocity(ProductOf(row), sales_data)
        moving == ~sales_data.none /\ velocity.num > 0
    IN [product |-> ProductOf(row),
        current_stock |-> current_stock,
        min_stock |-> min_stock,
        recommended_reorder_point |-> Ratio(3 * min_stock, 2),
        recommended_order_quantity |-> IF moving THEN Ratio(velocity.num * 30, velocity.den)
                                       ELSE Zero,
        days_of_stock_remaining |-> IF moving THEN Ratio(current_stock * velocity.den, velocity.num)
                                    ELSE Zero,
        reorder_urgency |->
            IF ~moving THEN "low"
            ELSE IF current_stock <= self.critical_stock_threshold THEN "critical"
            ELSE IF current_stock <= min_stock THEN "high"
            ELSE IF current_stock * velocity.den <= 7 * velocity.num THEN "medium"
            ELSE "low"]

\* reorder_points[product] = reorder_point: an existing key keeps its place
PutPoint(reorder_points, reorder_point) ==
    IF \E i \in DOMAIN reorder_points : reorder_points[i].product = reorder_point.product
    THEN [i \in DOMAIN reorder_points |->
             IF reorder_points[i].product = reorder_point.product THEN reorder_point
             ELSE reorder_points[i]]
    ELSE Append(reorder_points, reorder_point)

\* StockCalculator.calculate_reorder_points: the dict it returns, in insertion order
RECURSIVE ReorderPointsFrom(_, _, _, _, _)
ReorderPointsFrom(self, reorder_points, stock_data, sales_data, k) ==
    IF k > Len(stock_data) THEN reorder_points
    ELSE ReorderPointsFrom(self, PutPoint(reorder_points, ReorderPoint(self, stock_data[k], sales_data)),
                           stock_data, sales_data, k + 1)

calculate_reorder_points(self, stock_data, sales_data) ==
    ReorderPointsFrom(self, <<>>, stock_data, sales_data, 1)

\* Inventory.to_dataframe: the frame, or the exception a to_dict raises
to_dataframe(its) ==
    IF StatusRaises(its) THEN [exc |-> AttributeError, rows |-> <<>>]
    ELSE [exc |-> "", rows |-> [i \in DOMAIN its |-> to_dict(its[i])]]

(***************************************************************************)
(* The ABC analysis applied to input frames.  A run starts with the frames *)
(* in last and a caller constructs a calculator and calls the analysis.    *)
(***************************************************************************)
Revenues == {0, 5, 15, 20, 50}

\* the stock frame: one row for each default product
StockRows ==
    [k \in DOMAIN PRODUCT_WEIGHTS |->
        [product_name |-> ProductName(PRODUCT_WEIGHTS[k]), stock_value |-> 100 * k]]

\* sales frames: a sale of each default product and a second sale of the first
SalesFrames ==
    { [none |-> none, columns |-> columns,
       rows |-> [k \in 1..(Len(PRODUCT_WEIGHTS) + 1) |->
                    IF k <= Len(PRODUCT_WEIGHTS)
                    THEN [product |-> ProductName(PRODUCT_WEIGHTS[k]), total_amount |-> amounts[k]]
                    ELSE [product |-> ProductName(PRODUCT_WEIGHTS[1]), total_amount |-> second]]] :
        none \in {FALSE}, columns \in BOOLEAN,
        amounts \in [DOMAIN PRODUCT_WEIGHTS -> Revenues], second \in {0, 10} }
        \cup { [none |-> TRUE, columns |-> FALSE, rows |-> <<>>] }

\* the keys of row that are in columns
Restrict(row, columns) == [c \in columns |-> row[c]]

\* stock frames of two products: with every column the calculator reads,
\* without stock_value, and without stock_value and unit_price; and the empty frame
FrameStocks == {0, 3, 8, 12, 2000}
FrameColumns ==
    { {"product_name", "current_stock", "min_stock", "max_stock", "unit_price", "stock_value"},
      {"product_name", "current_stock", "min_stock", "max_stock", "unit_price"},
      {"product_name", "current_stock", "min_stock", "max_stock"} }
FrameRow(k, current_stock) ==
    [product_name |-> ProductName(PRODUCT_WEIGHTS[k]), current_stock |-> current_stock,
     min_stock |-> 10, max_stock |-> 1000, unit_price |-> 20, stock_value |-> current_stock * 20]
StockFrames ==
    { <<Restrict(FrameRow(1, a), columns), Restrict(FrameRow(2, b), columns)>> :
        a \in FrameStocks, b \in FrameStocks, columns \in FrameColumns } \cup { <<>> }

\* sales histories: none, or two sales of the first product, dated or not
SaleRow(quantity, date, dated) ==
    Restrict([product |-> ProductName(PRODUCT_WEIGHTS[1]), quantity |-> quantity, date |-> date],
             IF dated THEN {"product", "quantity", "date"} ELSE {"product", "quantity"})
SalesHistories ==
    { [none |-> FALSE, columns |-> columns,
       rows |-> <<SaleRow(first, 1, dated), SaleRow(second, date, dated)>>] :
        columns \in BOOLEAN, first \in {0, 2, 60}, second \in {0, 1}, date \in {1, 3},
        dated \in BOOLEAN }
        \cup { [none |-> TRUE, columns |-> FALSE, rows |-> <<>>] }

Methods == {"current", "fifo", "weighted_average"}

NoValuation == [total_value |-> 0, average_value_per_unit |-> Zero]

Analysis(op, sales_data, exc, result) ==
    [op |-> op, stock_data |-> StockRows, sales_data |-> sales_data, exc |-> exc,
     result |-> result, summary |-> EmptySummary, valuation |-> NoValuation,
     after |-> <<>>, method |-> ""]

Frames(op, stock_data, sales_data, exc) ==
    [Analysis(op, sales_data, exc, <<>>) EXCEPT !.stock_data = stock_data, !.after = stock_data]

CalcInit ==
    /\ last \in { Analysis("input", sales_data, "", <<>>) : sales_data \in SalesFrames }
                \cup { Frames("frames", stock_data, sales_data, "") :
                          stock_data \in StockFrames, sales_data \in SalesHistories }
    /\ now = 0
    /\ obj = load_default_inventory(0)[1]
    /\ items = <<>>
    /\ transactions = <<>>
    /\ products = <<>>
    /\ session_state = initialize_session_state

\* StockCalculator().calculate_abc_analysis(stock_data, sales_data)
CalculateAbcAnalysis ==
    /\ last.op = "input"
    /\ last' = IF NewStockCalculator.exc # ""
               THEN Analysis("calculate_abc_analysis", last.sales_data,
                             NewStockCalculator.exc, <<>>)
               ELSE Analysis("calculate_abc_analysis", last.sales_data, "",
                             calculate_abc_analysis(StockRows, last.sales_data))
    /\ UNCHANGED <<obj, items, now, transactions, products, session_state>>

\* StockCalculator().calculate_stock_summary(stock_data)
CalculateStockSummary ==
    /\ last.op = "frames"
    /\ last' = IF NewStockCalculator.exc # ""
               THEN Frames("calculate_stock_summary", last.stock_data, last.sales_data,
                           NewStockCalculator.exc)
               ELSE LET r == calculate_stock_summary(NewStockCalculator, last.stock_data)
                    IN [Frames("calculate_stock_summary", last.stock_data, last.sales_data, "")
                           EXCEPT !.summary = r.summary, !.after = r.stock_data]
    /\ UNCHANGED <<obj, items, now, transactions, products, session_state>>

\* StockCalculator().calculate_stock_valuation(stock_data, method)
CalculateStockValuation ==
    \E method \in Methods :
        /\ last.op = "frames"
        /\ last' = IF NewStockCalculator.exc # ""
                   THEN [Frames("calculate_stock_valuation", last.stock_data, last.sales_data,
                                NewStockCalculator.exc) EXCEPT !.method = method]
                   ELSE LET r == calculate_stock_valuation(last.stock_data, method)
                        IN [Frames("calculate_stock_valuation", last.stock_data,
                                   last.sales_data, "")
                               EXCEPT !.valuation = r.valuation, !.after = r.stock_data,
                                      !.method = method]
        /\ UNCHANGED <<obj, items, now, transactions, products, session_state>>

\* StockCalculator().calculate_reorder_points(stock_data, sales_data)
CalculateReorderPoints ==
    /\ last.op = "frames"
    /\ last' = IF NewStockCalculator.exc # ""
               THEN Frames("calculate_reorder_points", last.stock_data, last.sales_data,
                           NewStockCalculator.exc)
               ELSE [Frames("calculate_reorder_points", last.stock_data, last.sales_data, "")
                        EXCEPT !.result = calculate_reorder_points(NewStockCalculator,
                                                                   last.stock_data, last.sales_data)]
    /\ UNCHANGED <<obj, items, now, transactions, products, session_state>>

CalcNext ==
    \/ CalculateAbcAnalysis
    \/ CalculateStockSummary
    \/ CalculateStockValuation
    \/ CalculateReorderPoints

CalcSpec == CalcInit /\ [][CalcNext]_vars

(***************************************************************************)
(* Properties of the StockCalculator                                       *)
(***************************************************************************)
\* the revenue of the first k entries of an analysis
RECURSIVE CumulativeRevenue(_, _)
CumulativeRevenue(result, k) ==
    IF k = 0 THEN 0 ELSE result[k].revenue + CumulativeRevenue(result, k - 1)

CategoryRank(category) == CASE category = "A" -> 1 [] category = "B" -> 2 [] category = "C" -> 3

\* C19: an analysis of sales with a positive total ranks the products 1..n by
\* revenue in descending order, gives each the category of its cumulative share
\* (A up to 80%, B above 80% up to 95%, C above), never moves back to an earlier
\* category along the ranking, and gives A, A, B, B, C for revenues 50, 20, 15, 10, 5.
C19_AbcAnalysis ==
    last.op = "calculate_abc_analysis" /\ ~last.sales_data.none /\ last.sales_data.columns
        => /\ last.exc = ""
           /\ LET result == last.result
                  n == Len(result)
                  total == CumulativeRevenue(result, n)
                  share(k) == CumulativeRevenue(result, k) * 100
              IN /\ n = Len(StockRows)
                 /\ total = SumTotalAmount(last.sales_data.rows)
                 /\ total > 0 =>
                    /\ \A k \in 1..n : result[k].rank = k
                    /\ \A k \in 1..(n - 1) : result[k].revenue >= result[k + 1].revenue
                    /\ \A k \in 1..n :
                           /\ result[k].category = "A" <=> share(k) <= 80 * total
                           /\ result[k].category = "B"
                                  <=> share(k) > 80 * total /\ share(k) <= 95 * total
                           /\ result[k].category = "C" <=> share(k) > 95 * total
                    /\ \A k \in 1..(n - 1) :
                           CategoryRank(result[k].category) <= CategoryRank(result[k + 1].category)
                    /\ [k \in 1..n |-> result[k].revenue] = <<50, 20, 15, 10, 5>>
                           => [k \in 1..n |-> result[k].category] = <<"A", "A", "B", "B", "C">>

\* C20: in every ledger state the calculator's summary of the ledger's snapshot
\* reports the ledger's totals, out-of-stock count and low-stock count, and the
\* ledger's CRITICAL and OVERSTOCKED status counts.
C20_SummaryMirrors ==
    /\ NewStockCalculator.exc = ""
    /\ to_dataframe(items).exc = ""
    /\ get_inventory_summary(items).exc = ""
    /\ LET s == calculate_stock_summary(NewStockCalculator, to_dataframe(items).rows).summary
           l == get_inventory_summary(items)
       IN /\ s.total_stock_units = l.total_stock_units
          /\ s.total_stock_value = l.total_stock_value
          /\ s.out_of_stock_items = l.status_breakdown[OUT_OF_STOCK]
          /\ s.low_stock_items = l.low_stock_count
          /\ s.critical_stock_items = l.status_breakdown[CRITICAL]
          /\ s.overstocked_items = l.status_breakdown[OVERSTOCKED]

\* C21: a second calculate_stock_summary call on the snapshot a first call was
\* given returns the output the first call returned.
C21_SummaryRepeatable ==
    last.op = "calculate_stock_summary"
        => /\ last.exc = ""
           /\ calculate_stock_summary(NewStockCalculator, last.after).summary = last.summary

\* C22: calculate_stock_summary and calculate_stock_valuation leave the snapshot
\* they are given with the rows, columns and values it had, whether or not it
\* has a stock_value column.
C22_SnapshotUnchanged ==
    last.op \in {"calculate_stock_summary", "calculate_stock_valuation"}
        => /\ last.exc = ""
           /\ last.after = last.stock_data

\* the urgency the thresholds give an entry of calculate_reorder_points
ThresholdUrgency(self, reorder_point) ==
    IF reorder_point.current_stock <= self.critical_stock_threshold THEN "critical"
    ELSE IF reorder_point.current_stock <= reorder_point.min_stock THEN "high"
    ELSE IF reorder_point.days_of_stock_remaining.num
               <= 7 * reorder_point.days_of_stock_remaining.den THEN "medium"
    ELSE "low"

\* C23: calculate_reorder_points has an entry for every item of the snapshot,
\* and its reorder_urgency is critical when current_stock <= the critical
\* threshold, else high when current_stock <= min_stock, else medium when
\* days_of_stock_remaining <= 7, else low, whatever the sales history.
C23_ReorderUrgency ==
    last.op = "calculate_reorder_points"
        => /\ last.exc = ""
           /\ \A k \in DOMAIN last.stock_data :
                \E e \in DOMAIN last.result :
                    /\ last.result[e].product = last.stock_data[k].product_name
                    /\ last.result[e].current_stock = last.stock_data[k].current_stock
                    /\ last.result[e].reorder_urgency
                          = ThresholdUrgency(NewStockCalculator, last.result[e])

(***************************************************************************)
(* Inventory turnover (Inventory.calculate_inventory_turnover).  A float   *)
(* quotient is kept as the Ratio of its operands, float('inf') as 1 / 0.   *)
(***************************************************************************)
Infinity == Ratio(1, 0)

\* sum(sale.get('quantity', 0) for sale in sales_data if sale.get('product_id') == product_id)
RECURSIVE ProductSales(_, _)
ProductSales(sales_data, product_id) ==
    IF sales_data = <<>> THEN 0
    ELSE (IF Get(Head(sales_data), "product_id", "None") = product_id
          THEN Get(Head(sales_data), "quantity", 0) ELSE 0)
         + ProductSales(Tail(sales_data), product_id)

calculate_inventory_turnover_unguarded(its, sales_data, period_days) ==
    [i \in DOMAIN its |->
        LET item == its[i]
            product_sales == ProductSales(sales_data, item.product_id)
            stock == item.opening_stock + item.current_stock
            turnover_ratio == Ratio(product_sales * 2, stock)
        IN [product_id |-> item.product_id,
            turnover_ratio |-> turnover_ratio,
            sales_quantity |-> product_sales,
            average_inventory |-> Ratio(stock, 2),
            days_to_sell |-> IF turnover_ratio.num > 0
                             THEN Ratio(period_days * turnover_ratio.den, turnover_ratio.num)
                             ELSE Infinity]]

\* Inventory.calculate_inventory_turnover: the dict it returns, in the order of
\* the ledger; avg_inventory is (opening_stock + current_stock) / 2, so
\* product_sales / avg_inventory is product_sales * 2 / (opening_stock + current_stock)
calculate_inventory_turnover(its, sales_data, period_days) ==
    [i \in DOMAIN its |->
        LET item == its[i]
            product_sales == ProductSales(sales_data, item.product_id)
            stock == item.opening_stock + item.current_stock
            turnover_ratio == IF stock > 0 THEN Ratio(product_sales * 2, stock) ELSE Zero
        IN [product_id |-> item.product_id,
            turnover_ratio |-> turnover_ratio,
            sales_quantity |-> product_sales,
            average_inventory |-> Ratio(stock, 2),
            days_to_sell |-> IF turnover_ratio.num > 0
                             THEN Ratio(period_days * turnover_ratio.den, turnover_ratio.num)
                             ELSE Infinity]]

\* sale dicts: sales of a default product and of an added one, a return, a
\* sale without quantity, a sale without product_id
SaleDicts ==
    { [product_id |-> "RC_1.0KG", quantity |-> 4], [product_id |-> "RC_NEW", quantity |-> 3],
      [product_id |-> "RC_1.0KG", quantity |-> -4], [product_id |-> "RC_NEW"],
      [quantity |-> 5] }

SalesLists == SeqsUpTo(SaleDicts, MaxBatch)

TurnoverPeriods == {30, 7}

\* what every entry of a turnover report says, whatever the sales: one entry for
\* each item, in the ledger's order, with the average of opening and current stock
TurnoverEntries(r) ==
    /\ Len(r) = Len(items)
    /\ \A i \in DOMAIN items :
         /\ r[i].product_id = items[i].product_id
         /\ r[i].average_inventory = Ratio(items[i].opening_stock + items[i].current_stock, 2)
         /\ r[i].turnover_ratio.den # 0
         /\ r[i].average_inventory.num = 0 => r[i].turnover_ratio.num = 0

\* C24 as stated: calculate_inventory_turnover returns one entry for each ledger
\* item for any sales list, with no division by zero; average_inventory is
\* (opening_stock + current_stock) / 2, turnover_ratio is 0 when that is 0, and
\* days_to_sell is +infinity whenever turnover_ratio is 0 and period_days /
\* turnover_ratio otherwise.
C24_AnySalesList ==
    \A sales_data \in SalesLists, period_days \in TurnoverPeriods :
        LET r == calculate_inventory_turnover(items, sales_data, period_days)
        IN /\ TurnoverEntries(r)
           /\ \A i \in DOMAIN r :
                r[i].days_to_sell =
                    IF r[i].turnover_ratio.num = 0 THEN Infinity
                    ELSE Ratio(period_days * r[i].turnover_ratio.den, r[i].turnover_ratio.num)

\* C24: calculate_inventory_turnover returns one entry for each ledger item for
\* any sales list, with no division by zero; average_inventory is
\* (opening_stock + current_stock) / 2, turnover_ratio is 0 when that is 0, and
\* days_to_sell is +infinity whenever turnover_ratio is 0 or negative and
\* period_days / turnover_ratio when it is positive.
C24_Turnover ==
    \A sales_data \in SalesLists, period_days \in TurnoverPeriods :
        LET r == calculate_inventory_turnover(items, sales_data, period_days)
        IN /\ TurnoverEntries(r)
           /\ \A i \in DOMAIN r :
                r[i].days_to_sell =
                    IF r[i].turnover_ratio.num <= 0 THEN Infinity
                    ELSE Ratio(period_days * r[i].turnover_ratio.den, r[i].turnover_ratio.num)

\* a ledger holding an item whose opening and current stock are both 0 next to
\* a stocked one: a report over sales of both has ratio 0 and infinite
\* days_to_sell for the first and a finite days_to_sell for the second
C24_Witness ==
    LET r == calculate_inventory_turnover(
                 items, <<[product_id |-> "RC_1.0KG", quantity |-> 4],
                          [product_id |-> "RC_NEW", quantity |-> 3]>>, 30)
    IN \E i, j \in DOMAIN items :
        /\ items[i].product_id = "RC_NEW"
        /\ items[i].opening_stock + items[i].current_stock = 0
        /\ r[i].sales_quantity = 3
        /\ r[i].turnover_ratio = Zero
        /\ r[i].days_to_sell = Infinity
        /\ items[j].product_id = "RC_1.0KG"
        /\ r[j].turnover_ratio.num > 0
        /\ r[j].days_to_sell # Infinity

(***************************************************************************)
(* The dict form of an InventoryItem (ItemSpec)                            *)
(***************************************************************************)
\* C25: from_dict(item.to_dict()) returns an item equal to the original in every
\* stored field, for an item with or without an expiry_date.
C25_RoundTrip ==
    last.op \in {"to_dict", "from_dict"}
        => /\ last.exc = ""
           /\ last.out = <<obj>>

(***************************************************************************)
(* The session cache (src/src/utils/helpers.py).  The clock counts minutes. *)
(***************************************************************************)
\* cache_data(key, data, ttl_minutes): ttl_minutes is not used
cache_data(state, key, data, ttl_minutes, t) ==
    [cached_data |-> DictSet(state.cached_data, key, data),
     cache_timestamp |-> DictSet(state.cache_timestamp, key, t)]

get_cached_data_unexpired(state, key, ttl_minutes, t) ==
    IF key \notin DictKeys(state.cached_data) THEN [state |-> state, ret |-> None]
    ELSE IF key \notin DictKeys(state.cache_timestamp) THEN [state |-> state, ret |-> None]
    ELSE [state |-> state, ret |-> Str(DictGet(state.cached_data, key))]

\* get_cached_data(key, ttl_minutes): the session state after the call and the
\* value returned
get_cached_data(state, key, ttl_minutes, t) ==
    IF key \notin DictKeys(state.cached_data) THEN [state |-> state, ret |-> None]
    ELSE IF key \notin DictKeys(state.cache_timestamp) THEN [state |-> state, ret |-> None]
    ELSE IF t - DictGet(state.cache_timestamp, key) > ttl_minutes
    THEN [state |-> [cached_data |-> DictPop(state.cached_data, key),
                     cache_timestamp |-> DictPop(state.cache_timestamp, key)],
          ret |-> None]
    ELSE [state |-> state, ret |-> Str(DictGet(state.cached_data, key))]

\* clear_cache(key); key = "" stands for the call without a key
clear_cache(state, key) ==
    IF key = "" THEN [cached_data |-> <<>>, cache_timestamp |-> <<>>]
    ELSE [cached_data |-> DictPop(state.cached_data, key),
          cache_timestamp |-> DictPop(state.cache_timestamp, key)]

CacheKeys == {"stock_summary", "sales_summary"}
CacheValues == {"summary of 10:00", "summary of 10:05"}
Ttls == {0, 1}

CacheCall(op, key, ttl_minutes, data, ret) ==
    [op |-> op, key |-> key, ttl_minutes |-> ttl_minutes, data |-> data, ret |-> ret]

CacheInit ==
    /\ session_state = initialize_session_state
    /\ now = 0
    /\ last = CacheCall("initialize_session_state", "", 0, "", None)
    /\ obj = load_default_inventory(0)[1]
    /\ items = <<>>
    /\ transactions = <<>>
    /\ products = <<>>

CacheData ==
    \E key \in CacheKeys, data \in CacheValues, ttl_minutes \in Ttls :
        /\ session_state' = cache_data(session_state, key, data, ttl_minutes, now)
        /\ last' = CacheCall("cache_data", key, ttl_minutes, data, None)
        /\ UNCHANGED <<obj, items, now, transactions, products>>

GetCachedData ==
    \E key \in CacheKeys, ttl_minutes \in Ttls :
        LET r == get_cached_data(session_state, key, ttl_minutes, now)
        IN /\ session_state' = r.state
           /\ last' = CacheCall("get_cached_data", key, ttl_minutes, "", r.ret)
           /\ UNCHANGED <<obj, items, now, transactions, products>>

ClearCache ==
    \E key \in CacheKeys \cup {""} :
        /\ session_state' = clear_cache(session_state, key)
        /\ last' = CacheCall("clear_cache", key, 0, "", None)
        /\ UNCHANGED <<obj, items, now, transactions, products>>

CacheNext == Tick \/ CacheData \/ GetCachedData \/ ClearCache

CacheSpec == CacheInit /\ [][CacheNext]_vars

\* the entry of key in the cache: what is stored and when it was stored
Cached(state, key) ==
    [data |-> DictGet(state.cached_data, key), time |-> DictGet(state.cache_timestamp, key)]

IsCached(state, key) ==
    key \in DictKeys(state.cached_data) /\ key \in DictKeys(state.cache_timestamp)

\* C26: the cache holds for a key what the latest cache_data call for it stored
\* and the time of that call; get_cached_data(key, ttl) returns that value only
\* while at most ttl minutes have passed since then, and when more have passed
\* it returns None and removes the entry; after clear_cache(key) or clear_cache()
\* the key is not cached, and a key that is not cached gives None.
C26_NeverStale ==
    [][/\ CacheData =>
            /\ IsCached(session_state', last'.key)
            /\ Cached(session_state', last'.key) = [data |-> last'.data, time |-> now]
       /\ \A key \in CacheKeys :
            ~(CacheData /\ last'.key = key) /\ IsCached(session_state', key) =>
                /\ IsCached(session_state, key)
                /\ Cached(session_state', key) = Cached(session_state, key)
       /\ GetCachedData =>
            LET key == last'.key
                ttl == last'.ttl_minutes
            IN IF ~IsCached(session_state, key) THEN last'.ret = None
               ELSE IF now - Cached(session_state, key).time <= ttl
               THEN /\ last'.ret = Str(Cached(session_state, key).data)
                    /\ session_state' = session_state
               ELSE /\ last'.ret = None
                    /\ ~IsCached(session_state', key)
                    /\ key \notin DictKeys(session_state'.cached_data)
       /\ ClearCache =>
            \A key \in CacheKeys :
                last'.key \in {key, ""} =>
                    /\ key \notin DictKeys(session_state'.cached_data)
                    /\ key \notin DictKeys(session_state'.cache_timestamp)
      ]_vars

\* a get_cached_data call has found an entry older than its ttl, returned None
\* and removed it, while the other key is still cached
C26_Witness ==
    /\ last.op = "get_cached_data"
    /\ last.ret = None
    /\ last.ttl_minutes = 0
    /\ now > 0
    /\ ~IsCached(session_state, last.key)
    /\ \E key \in CacheKeys : IsCached(session_state, key) /\ Cached(session_state, key).time < now

(***************************************************************************)
(* The configuration the engine reads                                      *)
(***************************************************************************)
\* C27: CRITICAL_STOCK_THRESHOLD and MIN_STOCK_THRESHOLD are attributes of the
\* configuration module, so stock_status returns one of the five statuses for
\* every ledger item with current_stock > 0 and the StockCalculator constructor
\* raises nothing.
C27_ThresholdsDefined ==
    /\ HasConfigAttr("CRITICAL_STOCK_THRESHOLD")
    /\ HasConfigAttr("MIN_STOCK_THRESHOLD")
    /\ \A i \in DOMAIN items :
         items[i].current_stock > 0 =>
             stock_status(items[i]) \in { StockStatus[k] : k \in DOMAIN StockStatus }
    /\ NewStockCalculator.exc = ""

(***************************************************************************)
(* Identity of the stored transactions (TxnSpec)                           *)
(***************************************************************************)
\* TransactionManager.get_transaction
get_transaction(txns, transaction_id) ==
    IF transaction_id \in TxnKeys(txns) THEN <<txns[TxnIndex(txns, transaction_id)].txn>>
    ELSE <<>>

\* C28: every stored transaction has the transaction_id it is stored under, so
\* no two stored transactions have the same transaction_id and
\* get_transaction(id) returns a transaction whose transaction_id is id.
C28_IdIsKey ==
    /\ \A i \in DOMAIN transactions : transactions[i].txn.transaction_id = transactions[i].key
    /\ \A i, j \in DOMAIN transactions :
         transactions[i].txn.transaction_id = transactions[j].txn.transaction_id => i = j
    /\ \A id \in TxnIds :
         \A k \in DOMAIN get_transaction(transactions, id) :
             get_transaction(transactions, id)[k].transaction_id = id

(***************************************************************************)
(* Invariants of the stored products (CatalogSpec)                         *)
(***************************************************************************)
\* C29: every product in the catalog has weight_kg > 0, unit_price >= 0 and a
\* non-empty name, and is stored under its own product_id.
C29_StoredProductsValid ==
    \A i \in DOMAIN products :
        /\ products[i].value.weight_kg > 0
        /\ products[i].value.unit_price >= 0
        /\ products[i].value.name # ""
        /\ products[i].value.product_id = products[i].key

(***************************************************************************)
(* Import into the ledger (Spec)                                           *)
(***************************************************************************)
\* C30: an import_inventory call that returns false leaves the ledger exactly
\* as it was before the call; one that returns true leaves every item of the
\* input in the ledger under its product_id.
C30_ImportAllOrNothing ==
    [][ImportInventory =>
        IF last'.ret
        THEN \A k \in DOMAIN last'.data : last'.data[k].product_id \in Keys(items')
        ELSE items' = items
      ]_vars

====
